---- MODULE Spec2Model ----
(***************************************************************************)
(* Watermark-and-fingerprint producer of src/producer/air_producer.py:     *)
(* load_state / save_state, map_record, value_fingerprint, fetch_since,    *)
(* produce_all and the poll loop of main; and the resilience layer of      *)
(* src/producer/resilience.py: ExponentialBackoff, http_request_with_retry,*)
(* InflightLimiter, DiskQueue and ResilientProducer.                       *)
(*                                                                         *)
(* Specifications.  Spec: main against every upstream of the bounds.       *)
(* FairSpec: main against a small upstream, the main thread kept running.  *)
(* StateSpec: save_state and load_state on the state files.  UnitSpec:     *)
(* single calls of value_fingerprint and produce_all.  ResilientSpec: the  *)
(* ResilientProducer and its Kafka client.  QueueSpec: threads sharing one  *)
(* DiskQueue.  RetrySpec: single calls of delay_ms and                     *)
(* http_request_with_retry.  LimiterSpec, LimiterFairSpec: threads running *)
(* "with limiter:", the second with every blocked acquire kept running.    *)
(* ThrottlerSpec: a RateThrottler and its ProduceStats under a clock.      *)
(* PagingSpec: one call of fetch_since, a page request at a time.          *)
(* LockSpec: threads at the locks of ResilientProducer and DiskQueue.      *)
(*                                                                         *)
(* Encoding.  Every Python value the model needs is an integer, so that    *)
(* dict.get's None can be compared with any of them:                       *)
(*   None, absent key, JSON null ........ 0                                *)
(*   normalized timestamp ............... 1..MaxTs, ordered as the ISO     *)
(*                                        strings are (START_OFFSET is 1)  *)
(*   raw upstream timestamp ............. 10*t + d, d a sub-second digit   *)
(*   text that is no timestamp .......... 1..9                             *)
(*   content of the legacy offset file .. 10*t + w, w = 1 for a trailing   *)
(*                                        newline                          *)
(*   station id "A", "B", ... ........... 1..NumStations                   *)
(*   fallback id "obj<objectid>" ........ 100 + objectid ("objna" is 100)  *)
(*   measurement value .................. 1..MaxVal                        *)
(*   SHA-1 digest ....................... injective code of the payload    *)
(* A dict is a function whose DOMAIN is its key set.                       *)
(***************************************************************************)
EXTENDS Integers, Sequences, FiniteSets, TLC

\* ---------------------------------------------------------------- bounds
MaxRows == 2
LIMIT == 2
MaxTs == 3
NumStations == 2
MaxVal == 2
POLL_SECS == 2

\* ------------------------------------------------------------ Python bits
None == 0
START_OFFSET == 1

Truthy(x) == x # None

Get(d, k) == IF k \in DOMAIN d THEN d[k] ELSE None

PyOr(a, b) == IF Truthy(a) THEN a ELSE b

EmptyDict == [k \in {} |-> None]

\* The(S) is the element of the one-element set S.  {e(x) : x \in {v}} binds x
\* to the value of v, so that v is computed once however often e uses x.
The(S) == CHOOSE x \in S : TRUE

DictSet(d, k, v) == [x \in (DOMAIN d) \cup {k} |-> IF x = k THEN v ELSE d[x]]

BASES == <<1, 2>>

TIMESTAMP_FIELD == "fecha_carg"

CHANGE_FIELDS == <<"viento_dir", "viento_vel", "temperatur", "humedad_re", "presion_ba", "precipitac">>

\* ------------------------------------------------------------- utilities
\* datetime.fromisoformat(...).astimezone(utc).strftime("%Y-%m-%dT%H:%M:%SZ"):
\* the raw form (offset suffix, sub-second digits) is dropped, the second kept.
normalize_ts(s) == s \div 10

\* line 136: the last-resort datetime.fromisoformat is outside every try, so
\* text that none of the three parses accepts raises ValueError
normalize_ts_raises(s) == s < 10

RECURSIVE Digest(_, _)
Digest(payload, i) ==
    IF i > Len(CHANGE_FIELDS) THEN 1
    ELSE payload[CHANGE_FIELDS[i]] + (MaxVal + 1) * (Digest(payload, i + 1) - 1) + 1

\* sha1(json.dumps({k: rec.get(k) for k in CHANGE_FIELDS}, sort_keys=True))
value_fingerprintOneField(rec) == Get(rec, CHANGE_FIELDS[3]) + 1

value_fingerprint(rec) ==
    LET payload == [k \in {CHANGE_FIELDS[i] : i \in 1..Len(CHANGE_FIELDS)} |-> Get(rec, k)]
    IN Digest(payload, 1)

map_record(r, ts_field) ==
    LET ts_raw == Get(r, ts_field)
        out == [fiwareid |-> PyOr(Get(r, "fiwareid"), 100 + PyOr(Get(r, "objectid"), None)),
                ts |-> IF Truthy(ts_raw) THEN normalize_ts(ts_raw) ELSE None,
                objectid |-> Get(r, "objectid"),
                nombre |-> Get(r, "nombre"),
                direccion |-> Get(r, "direccion"),
                wind_dir_deg |-> Get(r, "viento_dir"),
                wind_speed_ms |-> Get(r, "viento_vel"),
                temperature_c |-> Get(r, "temperatur"),
                humidity_pct |-> Get(r, "humedad_re"),
                pressure_hpa |-> Get(r, "presion_ba"),
                precip_mm |-> Get(r, "precipitac"),
                lat |-> None,
                lon |-> None]
        fp == value_fingerprint([viento_dir |-> out.wind_dir_deg,
                                 viento_vel |-> out.wind_speed_ms,
                                 temperatur |-> out.temperature_c,
                                 humedad_re |-> out.humidity_pct,
                                 presion_ba |-> out.pressure_hpa,
                                 precipitac |-> out.precip_mm])
    IN ("_fp" :> fp) @@ out

\* --------------------------------------------------------------- upstream
\* Rows the records endpoint can serve: fiwareid null or a station, objectid
\* null, fecha_carg null or a raw timestamp after START_OFFSET, one measured
\* field (the other CHANGE_FIELDS are absent from the row); and one row whose
\* fecha_carg is text that is no timestamp.
BadTs == 7

RawRows ==
    {[fiwareid |-> f, objectid |-> o, fecha_carg |-> t, temperatur |-> v] :
        f \in 0..NumStations, o \in {None}, t \in {None} \cup {10 * s : s \in 2..MaxTs},
        v \in 1..MaxVal}
    \cup {[fiwareid |-> 1, objectid |-> None, fecha_carg |-> BadTs, temperatur |-> 1]}

RECURSIVE SeqsUpTo(_, _)
SeqsUpTo(S, n) ==
    IF n = 0 THEN {<<>>}
    ELSE LET shorter == SeqsUpTo(S, n - 1)
         IN shorter \cup {Append(q, x) : q \in {p \in shorter : Len(p) = n - 1}, x \in S}

Snapshots == SeqsUpTo(RawRows, MaxRows)

\* One request per (base, page).  fail[b] is the page index of the request to
\* base b that raises (connection error or raise_for_status), -1 for none.
MaxPage == MaxRows \div LIMIT

FailPatterns == [1..Len(BASES) -> -1..MaxPage]

PageRows(snapshot, page) ==
    LET lo == page * LIMIT + 1
        hi == IF (page + 1) * LIMIT < Len(snapshot) THEN (page + 1) * LIMIT ELSE Len(snapshot)
    IN IF lo > Len(snapshot) THEN <<>> ELSE SubSeq(snapshot, lo, hi)

\* ----------------------------------------------------------- fetch_since
\* line 283: if not (ts and sid and fp): continue
IsValidAny(ts, sid, fp) == Truthy(ts) \/ Truthy(sid) \/ Truthy(fp)

IsValidNoSid(ts, sid, fp) == Truthy(ts) /\ Truthy(fp)

IsValid(ts, sid, fp) == Truthy(ts) /\ Truthy(sid) /\ Truthy(fp)

\* lines 278-309, one row.  st is the loop state [out, max_ts, seen_map, ctl].
\* sid is read under the key "station_fiwareid"; map_record writes the id under
\* "fiwareid" and writes no "station_fiwareid", so Get gives None here.
\* ts > max_ts with ts None is a comparison of None with a str: it raises
\* TypeError, which fetch_since does not catch (only a changed IsValid gets there).
\* map_record raises what normalize_ts raises (line 151), uncaught as well.
\* st.caller is the caller's seen_for_offset object: seen_map is a copy of it
\* (line 255), so the writes of lines 287 and 309 do not reach it.
ProcessRowInPlace(st, r, offset_iso, seen_for_offset) ==
    [st EXCEPT !.caller = DictSet(@, Get(map_record(r, TIMESTAMP_FIELD), "fiwareid"),
                                  Get(map_record(r, TIMESTAMP_FIELD), "_fp"))]

ProcessRow(st, r, offset_iso, seen_for_offset) ==
    LET ev == map_record(r, TIMESTAMP_FIELD)
        ts == Get(ev, "ts")
        sid == Get(ev, "station_fiwareid")
        fp == Get(ev, "_fp")
    IN IF Truthy(Get(r, TIMESTAMP_FIELD)) /\ normalize_ts_raises(Get(r, TIMESTAMP_FIELD))
       THEN [st EXCEPT !.ctl = "raise"]
       ELSE IF ~IsValid(ts, sid, fp) THEN st
       ELSE IF ts = None THEN [st EXCEPT !.ctl = "raise"]
       ELSE LET newer == ts > st.max_ts
                max_ts == IF newer THEN ts ELSE st.max_ts
                seen_map == IF newer THEN EmptyDict ELSE st.seen_map
                should_emit ==
                    IF ts > offset_iso THEN TRUE
                    ELSE IF ts = offset_iso THEN Get(seen_for_offset, sid) # fp
                    ELSE IF ts = max_ts THEN Get(seen_map, sid) # fp
                    ELSE FALSE
            IN [st EXCEPT !.max_ts = max_ts,
                          !.out = IF should_emit THEN Append(@, ev) ELSE @,
                          !.seen_map = IF should_emit /\ ts = max_ts
                                       THEN DictSet(seen_map, sid, fp) ELSE seen_map]

RECURSIVE RowLoop(_, _, _, _)
RowLoop(st, rows, offset_iso, seen_for_offset) ==
    IF rows = <<>> \/ st.ctl = "raise" THEN st
    ELSE RowLoop(ProcessRow(st, Head(rows), offset_iso, seen_for_offset),
                 Tail(rows), offset_iso, seen_for_offset)

\* lines 270-275: the except branch of a page request
OnFetchErrorRaise(st) == [st EXCEPT !.ctl = "raise"]

OnFetchError(st) ==
    IF st.out = <<>> THEN [st EXCEPT !.ctl = "break"] ELSE [st EXCEPT !.ctl = "return"]

\* line 310: if len(rows) < LIMIT: break
ShortPageNever(rows) == FALSE

ShortPage(rows) == Len(rows) < LIMIT

\* lines 258-311: one pass of the while loop, the request for page `page` of
\* base b failing (failed) or answered with rows.  ctl stays "run" when the
\* loop goes on to the next page.
PageOnce(st, b, page, failed, rows, offset_iso, seen_for_offset) ==
    LET st1 == [st EXCEPT !.requests = Append(@, <<b, page>>)]
    IN IF failed THEN OnFetchError(st1)
       ELSE IF rows = <<>> THEN [st1 EXCEPT !.ctl = "break"]
       ELSE The({IF st2.ctl = "raise" THEN st2
                 ELSE IF ShortPage(rows) THEN [st2 EXCEPT !.ctl = "break"]
                 ELSE st2 :
                 st2 \in {RowLoop([st1 EXCEPT !.fetched = @ \o rows], rows,
                                  offset_iso, seen_for_offset)}})

\* lines 257-312: the while loop over the pages of one base
RECURSIVE PageLoop(_, _, _, _, _, _, _)
PageLoop(st, b, page, snapshot, fail, offset_iso, seen_for_offset) ==
    The({IF s.ctl = "run"
         THEN PageLoop(s, b, page + 1, snapshot, fail, offset_iso, seen_for_offset)
         ELSE s :
         s \in {PageOnce(st, b, page, fail[b] = page, PageRows(snapshot, page),
                         offset_iso, seen_for_offset)}})

\* lines 270-275, 313-314: after the while loop of a base the function is left
\* (return, exception) or the for loop is (out holds something)
BaseEnds(s) == s.ctl \in {"return", "raise"} \/ s.out # <<>>

\* lines 256-314: the for loop over the bases
RECURSIVE BaseLoop(_, _, _, _, _, _)
BaseLoop(st, b, snapshot, fail, offset_iso, seen_for_offset) ==
    IF b > Len(BASES) THEN st
    ELSE The({IF BaseEnds(s) THEN s
              ELSE BaseLoop(s, b + 1, snapshot, fail, offset_iso, seen_for_offset) :
              s \in {PageLoop([st EXCEPT !.ctl = "run"], b, 0, snapshot, fail,
                              offset_iso, seen_for_offset)}})

\* line 317
NewOffsetDefault(max_ts, offset_iso) == IF max_ts > offset_iso THEN max_ts ELSE START_OFFSET

NewOffset(max_ts, offset_iso) == IF max_ts > offset_iso THEN max_ts ELSE offset_iso

\* The upstream answers the call's requests from snapshot, failing as fail says.
\* raised: the call ended in an exception instead of returning.
\* requests, fetched: the requests sent and the rows received, in order.
\* caller_seen: the caller's seen_for_offset object when the call ends.
fetch_since(offset_iso, seen_for_offset, snapshot, fail) ==
    LET st0 == [out |-> <<>>, max_ts |-> offset_iso, seen_map |-> seen_for_offset,
                ctl |-> "run", requests |-> <<>>, fetched |-> <<>>,
                caller |-> seen_for_offset]
    IN The({[out |-> IF s.ctl = "raise" THEN <<>> ELSE s.out,
             new_offset |-> IF s.ctl = "raise" THEN offset_iso
                            ELSE IF s.ctl = "return" THEN s.max_ts
                            ELSE NewOffset(s.max_ts, offset_iso),
             seen_map |-> IF s.ctl = "raise" THEN seen_for_offset ELSE s.seen_map,
             raised |-> s.ctl = "raise",
             requests |-> s.requests,
             fetched |-> s.fetched,
             caller_seen |-> s.caller] :
            s \in {BaseLoop(st0, 1, snapshot, fail, offset_iso, seen_for_offset)}})

\* ------------------------------------------------------------ state files
\* A file is absent, unparsable, or holds the JSON object data.
AbsentFile == [kind |-> "absent", data |-> EmptyDict]

CorruptFile == [kind |-> "corrupt", data |-> EmptyDict]

\* line 100: open(STATE_JSON, "w") leaves the file empty until the dump is written
TruncatedFile == [kind |-> "truncated", data |-> EmptyDict]

\* lines 97-101: json.dump({"offset": ..., "seen_for_offset": ...}) over STATE_JSON
save_stateNoSeen(offset_iso, seen_map) ==
    [kind |-> "json", data |-> [offset |-> offset_iso, seen_for_offset |-> EmptyDict]]

save_state(offset_iso, seen_map) ==
    [kind |-> "json", data |-> [offset |-> offset_iso, seen_for_offset |-> seen_map]]

\* line 60: str.strip() of the text read
Strip(text) == text \div 10

\* lines 58-77; PG_BOOTSTRAP is false, so the database branch is not taken
load_offsetDefault(offset_file) == START_OFFSET

load_offset(offset_file) ==
    IF offset_file # None THEN Strip(offset_file) ELSE START_OFFSET

\* line 88: json.load raises on a file that holds no JSON document
JsonLoadRaises(state_file) == state_file.kind \in {"corrupt", "truncated"}

\* lines 83-94.  The result is <<offset, seen, raised>>; whatever the try block
\* raises is passed over, and nothing after it raises.
load_stateUnguarded(state_file, offset_file) ==
    IF state_file.kind # "absent" /\ JsonLoadRaises(state_file)
    THEN <<None, EmptyDict, TRUE>>
    ELSE IF state_file.kind # "absent"
    THEN <<IF "offset" \in DOMAIN state_file.data THEN state_file.data["offset"]
           ELSE START_OFFSET,
           IF "seen_for_offset" \in DOMAIN state_file.data
           THEN state_file.data["seen_for_offset"] ELSE EmptyDict,
           FALSE>>
    ELSE <<load_offset(offset_file), EmptyDict, FALSE>>

load_state(state_file, offset_file) ==
    IF state_file.kind # "absent" /\ ~JsonLoadRaises(state_file)
    THEN <<IF "offset" \in DOMAIN state_file.data THEN state_file.data["offset"]
           ELSE START_OFFSET,
           IF "seen_for_offset" \in DOMAIN state_file.data
           THEN state_file.data["seen_for_offset"] ELSE EmptyDict,
           FALSE>>
    ELSE <<load_offset(offset_file), EmptyDict, FALSE>>

\* ------------------------------------------------------------ produce_all
\* lines 177-183.  ev['station_fiwareid'] raises KeyError when the key is
\* missing; p.produce raises when the client cannot take the message (~kafka_ok).
RECURSIVE ProduceLoop(_, _, _)
ProduceLoop(events, kafka_ok, acc) ==
    IF events = <<>> THEN acc
    ELSE LET ev == Head(events)
         IN IF ~Truthy(Get(ev, "ts")) THEN ProduceLoop(Tail(events), kafka_ok, acc)
            ELSE IF "station_fiwareid" \notin DOMAIN ev THEN [acc EXCEPT !.raised = TRUE]
            ELSE IF ~kafka_ok THEN [acc EXCEPT !.raised = TRUE]
            ELSE ProduceLoop(Tail(events), kafka_ok,
                     [acc EXCEPT !.sent = Append(@, [key |-> <<ev["station_fiwareid"], ev["ts"]>>,
                                                     value |-> ev])])

produce_all(events, kafka_ok) ==
    ProduceLoop(events, kafka_ok, [raised |-> FALSE, sent |-> <<>>])

\* ------------------------------------------------------------------ state
VARIABLES
    offset,       \* main's offset
    seen,         \* main's seen
    state_json,   \* the file STATE_JSON
    offset_txt,   \* the legacy file OFFSET_FILE: its content, None when absent
    running,      \* the module flag the signal handler clears
    pc,           \* "poll": at the while test; "try": in the try block;
                  \* "sleep": at the if of the sleep loop; "sleeping": in
                  \* time.sleep(1); "done": past the while loop
    slept,        \* passes of the sleep loop completed in this round
    stopped_at,   \* where main was when the signal handler ran: its pc and slept
    published,    \* messages handed to the Kafka producer so far
    last,         \* the iteration of this round: its inputs and what it did
    saving,       \* the call of save_state under way or last made
    fp_call,      \* the latest calls of value_fingerprint: records and digests
    pub_call,     \* the latest call of produce_all: its events and what it did
    throttler,    \* ResilientProducer._throttler is set (throttle_on_failures)
    pending,      \* ResilientProducer._pending: its <<msg_id, <<key, value>>>> entries
    dlq,          \* the lines of the DiskQueue file, oldest first
    stats,        \* RateThrottler._stats: success_count, failure_count
    inflight,     \* messages the Kafka client holds with no delivery report yet
    rp_last,      \* the latest call on the ResilientProducer and what it met
    rp_produced,  \* the messages passed to ResilientProducer.produce so far
    rp_delivered, \* the messages a delivery report confirmed
    http_call,    \* the latest call of http_request_with_retry and what it did
    backoff_call, \* the latest call of ExponentialBackoff.delay_ms
    q_lock,       \* DiskQueue._lock: the thread holding it, 0 when free
    q_pc,         \* where each thread is in DiskQueue.enqueue / dequeue_all
    q_local,      \* each thread's local: the message to write, the messages read
    q_next,       \* number of enqueue calls made so far
    q_done,       \* messages the completed enqueue calls were given, in order
    q_since,      \* those of them written since the latest drain
    q_out,        \* messages the completed drains returned, in order
    q_last,       \* the latest completed DiskQueue call
    lim_max,      \* InflightLimiter._max
    lim_value,    \* the counter of InflightLimiter._semaphore
    lim_pc,       \* each thread: "out", "waiting" in __enter__, "inside" the block
    lim_exc,      \* each thread: its latest exit from the block was by exception
    paging,       \* a call of fetch_since under way: its locals and the upstream
    th,           \* a RateThrottler: its configuration, its ProduceStats, the clock
    lk            \* ResilientProducer._lock, DiskQueue._lock and the threads at them

mainVars ==
    <<offset, seen, state_json, offset_txt, running, pc, slept, stopped_at, published, last>>

unitVars == <<fp_call, pub_call, http_call, backoff_call>>

rpVars == <<throttler, pending, dlq, stats, inflight, rp_last, rp_produced, rp_delivered>>

queueVars == <<q_lock, q_pc, q_local, q_next, q_done, q_since, q_out, q_last>>

limVars == <<lim_max, lim_value, lim_pc, lim_exc>>

stepVars == <<paging, th, lk>>

vars == <<mainVars, saving, unitVars, rpVars, queueVars, limVars, stepVars>>

\* what the main loop leaves alone
otherVars == <<saving, unitVars, rpVars, queueVars, limVars, stepVars>>

NumThreads == 2

QThreads == 1..NumThreads

NumLimThreads == 4

LimThreads == 1..NumLimThreads

NoFail == [b \in 1..Len(BASES) |-> -1]

NoCall ==
    [called |-> FALSE, offset_iso |-> None, seen_for_offset |-> EmptyDict,
     snapshot |-> <<>>, fail |-> NoFail,
     res |-> [out |-> <<>>, new_offset |-> None, seen_map |-> EmptyDict,
              raised |-> FALSE, requests |-> <<>>, fetched |-> <<>>,
              caller_seen |-> EmptyDict],
     produced |-> FALSE, publish_raised |-> FALSE, save_raised |-> FALSE,
     saved |-> FALSE, state_json_before |-> AbsentFile]

NotStopped == [pc |-> "none", slept |-> 0]

NoSave ==
    [phase |-> "idle", offset |-> None, seen |-> EmptyDict, before |-> AbsentFile,
     loaded |-> FALSE, load_raised |-> FALSE]

NoFpCall == [called |-> FALSE, a |-> <<>>, b |-> <<>>, fa |-> None, fb |-> None]

NoPubCall ==
    [called |-> FALSE, events |-> <<>>, kafka_ok |-> TRUE, raised |-> FALSE, sent |-> <<>>]

NoStats == [success_count |-> 0, failure_count |-> 0]

NoRpCall ==
    [op |-> "none", key |-> None, value |-> None, err |-> FALSE, elapsed |-> FALSE,
     remaining |-> 0, raised |-> FALSE, returned |-> 0, submitted |-> <<>>]

IdleMain ==
    /\ offset = None
    /\ seen = EmptyDict
    /\ state_json = AbsentFile
    /\ offset_txt = None
    /\ running = TRUE
    /\ pc = "poll"
    /\ slept = 0
    /\ stopped_at = NotStopped
    /\ published = {}
    /\ last = NoCall

IdleState == saving = NoSave

NoHttpCall ==
    [called |-> FALSE, max_retries |-> 0, outcomes |-> <<>>, requests |-> 0,
     sleeps |-> <<>>, result |-> "none", status |-> None, exc |-> "none"]

NoBackoffCall ==
    [called |-> FALSE, base_delay_ms |-> 0, max_delay_ms |-> 0, jitter_pct |-> 0,
     attempt |-> 0, jitter |-> 0, delay |-> 0]

NoQueueCall ==
    [op |-> "none", ret |-> <<>>, since |-> <<>>, after_drain |-> FALSE, size |-> 0,
     file |-> <<>>]

IdleUnit ==
    /\ fp_call = NoFpCall
    /\ pub_call = NoPubCall
    /\ http_call = NoHttpCall
    /\ backoff_call = NoBackoffCall

IdleQueue ==
    /\ q_lock = 0
    /\ q_pc = [t \in QThreads |-> "idle"]
    /\ q_local = [t \in QThreads |-> <<>>]
    /\ q_next = 0
    /\ q_done = <<>>
    /\ q_since = <<>>
    /\ q_out = <<>>
    /\ q_last = NoQueueCall

IdleLim ==
    /\ lim_max = 1
    /\ lim_value = 1
    /\ lim_pc = [t \in LimThreads |-> "out"]
    /\ lim_exc = [t \in LimThreads |-> FALSE]

NoPaging == [pc |-> "none"]

NoThrottler == [op |-> "none"]

NoLocks == [producer_lock |-> 0, dlq_lock |-> 0]

IdleStep == paging = NoPaging /\ th = NoThrottler /\ lk = NoLocks

IdleRp ==
    /\ throttler = TRUE
    /\ pending = <<>>
    /\ dlq = <<>>
    /\ stats = NoStats
    /\ inflight = <<>>
    /\ rp_last = NoRpCall
    /\ rp_produced = {}
    /\ rp_delivered = {}

IdleOthers == IdleState /\ IdleUnit /\ IdleRp /\ IdleQueue /\ IdleLim /\ IdleStep

\* ------------------------------------------------------------------ main
\* the fingerprint map_record gives a row whose only measured field is temperatur
FpOfTemp(v) == value_fingerprint([temperatur |-> v])

InitSeenMaps == {EmptyDict, 1 :> FpOfTemp(1)}

InitStateFiles ==
    {AbsentFile, CorruptFile} \cup
    {save_state(o, m) : o \in 2..(MaxTs - 1), m \in InitSeenMaps}

InitMain ==
    /\ state_json \in InitStateFiles
    /\ offset_txt \in {None, 20}
    /\ offset = load_state(state_json, offset_txt)[1]
    /\ seen = load_state(state_json, offset_txt)[2]
    /\ running = TRUE
    /\ pc = "poll"
    /\ slept = 0
    /\ stopped_at = NotStopped
    /\ published = {}
    /\ last = NoCall

\* line 356: while running holds
EnterLoop ==
    /\ pc = "poll"
    /\ running
    /\ pc' = "try"
    /\ UNCHANGED <<offset, seen, state_json, offset_txt, running, slept, stopped_at,
                   published, last>>
    /\ UNCHANGED otherVars

\* line 359: if items:
ShouldCommitAlways(items) == TRUE

ShouldCommit(items) == items # <<>>

\* lines 366-369: except Exception prints and falls through to the sleep loop
AfterIterationReraise(raised) == IF raised THEN "done" ELSE "sleep"

AfterIteration(raised) == "sleep"

\* What a call of save_state can do to the file: write it, fail in open before
\* touching it, or fail after open has truncated it.
SaveOutcomes == {"ok", "open_failed", "write_failed"}

\* lines 357-367: one pass of the try block, the upstream holding one of
\* snapshots and failing as one of fails says.  The signal handler only clears
\* running, which the try block does not read.
PollFrom(snapshots, fails) ==
    /\ pc = "try"
    /\ \E snapshot \in snapshots, fail \in fails :
         \E r \in {fetch_since(offset, seen, snapshot, fail)} :
         \E kafka_ok \in IF ~r.raised /\ ShouldCommit(r.out) THEN BOOLEAN ELSE {TRUE},
            disk \in IF ~r.raised /\ ShouldCommit(r.out) THEN SaveOutcomes ELSE {"ok"} :
         LET enter == ~r.raised /\ ShouldCommit(r.out)
             p == produce_all(r.out, kafka_ok)
             save == enter /\ ~p.raised
             commit == save /\ disk = "ok"
         IN /\ published' = IF enter THEN published \cup {p.sent[i] : i \in 1..Len(p.sent)}
                            ELSE published
            /\ state_json' = IF commit THEN save_state(r.new_offset, r.seen_map)
                             ELSE IF save /\ disk = "write_failed" THEN TruncatedFile
                             ELSE state_json
            /\ offset' = IF commit THEN r.new_offset ELSE offset
            /\ seen' = IF commit THEN r.seen_map ELSE r.caller_seen
            /\ last' = [called |-> TRUE, offset_iso |-> offset, seen_for_offset |-> seen,
                        snapshot |-> snapshot, fail |-> fail, res |-> r,
                        produced |-> enter, publish_raised |-> enter /\ p.raised,
                        save_raised |-> save /\ ~commit,
                        saved |-> commit, state_json_before |-> state_json]
            /\ pc' = AfterIteration(r.raised \/ (enter /\ p.raised) \/ (save /\ ~commit))
    /\ slept' = 0
    /\ UNCHANGED <<offset_txt, running, stopped_at>>
    /\ UNCHANGED otherVars

Poll == PollFrom(Snapshots, FailPatterns)

\* lines 369-370: for _ in range(POLL_SECS) has a pass left and running holds
KeepSleepingFull(run, n) == n < POLL_SECS

KeepSleeping(run, n) == run /\ n < POLL_SECS

\* lines 369-372: the if of one pass lets it through to time.sleep(1).  The
\* record of the finished iteration is dropped here.
SleepCheck ==
    /\ pc = "sleep"
    /\ KeepSleeping(running, slept)
    /\ pc' = "sleeping"
    /\ last' = NoCall
    /\ UNCHANGED <<offset, seen, state_json, offset_txt, running, slept, stopped_at,
                   published>>
    /\ UNCHANGED otherVars

\* line 372: time.sleep(1) returns; a signal during it does not cut it short
SleepSecond ==
    /\ pc = "sleeping"
    /\ pc' = "sleep"
    /\ slept' = slept + 1
    /\ UNCHANGED <<offset, seen, state_json, offset_txt, running, stopped_at,
                   published, last>>
    /\ UNCHANGED otherVars

\* lines 369-371: the sleep loop runs out, or breaks because running is false
Sleep ==
    /\ pc = "sleep"
    /\ ~KeepSleeping(running, slept)
    /\ pc' = "poll"
    /\ slept' = 0
    /\ last' = NoCall
    /\ UNCHANGED <<offset, seen, state_json, offset_txt, running, stopped_at, published>>
    /\ UNCHANGED otherVars

\* line 356: while running fails
ExitLoop ==
    /\ pc = "poll"
    /\ ~running
    /\ pc' = "done"
    /\ UNCHANGED <<offset, seen, state_json, offset_txt, running, slept, stopped_at,
                   published, last>>
    /\ UNCHANGED otherVars

\* lines 51-55: SIGINT / SIGTERM
Stop ==
    /\ pc # "done"
    /\ running
    /\ running' = FALSE
    /\ stopped_at' = [pc |-> pc, slept |-> slept]
    /\ UNCHANGED <<offset, seen, state_json, offset_txt, pc, slept, published, last>>
    /\ UNCHANGED otherVars

Next == EnterLoop \/ Poll \/ SleepCheck \/ SleepSecond \/ Sleep \/ ExitLoop \/ Stop

Init == InitMain /\ IdleOthers

Spec == Init /\ [][Next]_vars

\* The main loop against an upstream that holds nothing, one row that maps, or
\* one row whose timestamp does not parse, and answers or fails every request.
LoopSnapshots ==
    {<<>>} \cup {<<r>> : r \in {x \in RawRows : x.fiwareid = 1 /\ x.temperatur = 1
                                                 /\ x.fecha_carg \in {BadTs, 10 * MaxTs}}}

LoopFails == {NoFail, [b \in 1..Len(BASES) |-> 0]}

PollLoop == PollFrom(LoopSnapshots, LoopFails)

MainThread == EnterLoop \/ PollLoop \/ SleepCheck \/ SleepSecond \/ Sleep \/ ExitLoop

LoopNext == EnterLoop \/ PollLoop \/ SleepCheck \/ SleepSecond \/ Sleep \/ ExitLoop \/ Stop

\* The interpreter keeps running the main thread: whichever of its steps is
\* possible is eventually taken.
FairSpec == Init /\ [][LoopNext]_vars /\ WF_vars(MainThread)

\* ------------------------------------------------------- the state files
\* Calls of save_state and load_state on the files, with the arguments main
\* can pass.  saving.phase: "open" between open(STATE_JSON, "w") and the end of
\* the with block, "done" after it, "crashed" when the process died in between.
\* saving.loaded: offset and seen are what load_state returned for the files as
\* they are now.
StateOffsets == 1..MaxTs

StateSeenMaps == InitSeenMaps \cup {(1 :> FpOfTemp(2)) @@ (2 :> FpOfTemp(1))}

StateFiles ==
    {AbsentFile, CorruptFile, [kind |-> "json", data |-> [seen_for_offset |-> EmptyDict]]}
    \cup {save_state(o, m) : o \in {2}, m \in InitSeenMaps}

InitState ==
    /\ state_json \in StateFiles
    /\ offset_txt \in {None, 20, 31}
    /\ offset = None
    /\ seen = EmptyDict
    /\ saving = NoSave
    /\ running = TRUE
    /\ pc = "poll"
    /\ slept = 0
    /\ stopped_at = NotStopped
    /\ published = {}
    /\ last = NoCall
    /\ IdleUnit
    /\ IdleRp
    /\ IdleQueue
    /\ IdleLim /\ IdleStep

stateIdle ==
    <<running, pc, slept, stopped_at, published, last, unitVars, rpVars, queueVars, limVars, stepVars>>

\* lines 99-100: makedirs, then open(STATE_JSON, "w") truncates the file
SaveOpen ==
    /\ saving.phase # "open"
    /\ \E o \in StateOffsets, m \in StateSeenMaps :
         saving' = [phase |-> "open", offset |-> o, seen |-> m, before |-> state_json,
                    loaded |-> FALSE, load_raised |-> FALSE]
    /\ state_json' = TruncatedFile
    /\ UNCHANGED <<offset, seen, offset_txt>>
    /\ UNCHANGED stateIdle

\* line 101 and the end of the with block: the dump reaches the file
SaveWrite ==
    /\ saving.phase = "open"
    /\ state_json' = save_state(saving.offset, saving.seen)
    /\ saving' = [saving EXCEPT !.phase = "done", !.loaded = FALSE]
    /\ UNCHANGED <<offset, seen, offset_txt>>
    /\ UNCHANGED stateIdle

\* the process dies between open and the end of the with block
Crash ==
    /\ saving.phase = "open"
    /\ saving' = [saving EXCEPT !.phase = "crashed"]
    /\ UNCHANGED <<offset, seen, state_json, offset_txt>>
    /\ UNCHANGED stateIdle

\* line 349: a process starts (a restart, or a second one beside the saver)
\* and takes offset, seen from load_state()
Startup ==
    /\ \E r \in {load_state(state_json, offset_txt)} :
         /\ offset' = IF r[3] THEN offset ELSE r[1]
         /\ seen' = IF r[3] THEN seen ELSE r[2]
         /\ saving' = [saving EXCEPT !.loaded = ~r[3], !.load_raised = r[3]]
    /\ UNCHANGED <<state_json, offset_txt>>
    /\ UNCHANGED stateIdle

StateNext == SaveOpen \/ SaveWrite \/ Crash \/ Startup

StateSpec == InitState /\ [][StateNext]_vars

\* ------------------------------------------- value_fingerprint, produce_all
\* A Python dict as the list of its items in insertion order.
FpKeys == {"temperatur", "humedad_re", "fiwareid", "fecha_carg"}

FpValues(k) == IF k \in {"temperatur", "humedad_re"} THEN 0..MaxVal ELSE 1..MaxVal

FpItems == UNION {{<<k, v>> : v \in FpValues(k)} : k \in FpKeys}

FpRecords ==
    {<<>>} \cup {<<x>> : x \in FpItems}
           \cup {p \in FpItems \X FpItems : p[1][1] # p[2][1]}

\* the dict a list of items builds: rec.get(k) does not see their order
DictOf(items) ==
    [k \in {items[i][1] : i \in DOMAIN items} |->
        items[CHOOSE i \in DOMAIN items : items[i][1] = k][2]]

\* lines 140-144, called on two records
CallFingerprint ==
    /\ IdleUnit
    /\ \E a \in FpRecords, b \in FpRecords :
         fp_call' = [called |-> TRUE, a |-> a, b |-> b,
                     fa |-> value_fingerprint(DictOf(a)),
                     fb |-> value_fingerprint(DictOf(b))]
    /\ pub_call' = NoPubCall
    /\ UNCHANGED <<http_call, backoff_call>>
    /\ UNCHANGED <<mainVars, saving, rpVars, queueVars, limVars, stepVars>>

\* the records fetch_since appends to out are results of map_record
PubEvents == {map_record(r, TIMESTAMP_FIELD) : r \in RawRows \ {x \in RawRows : x.fecha_carg = BadTs}}

\* lines 177-183, called on a list of mapped records
CallProduceAll ==
    /\ IdleUnit
    /\ \E events \in SeqsUpTo(PubEvents, MaxRows), kafka_ok \in BOOLEAN :
         \E p \in {produce_all(events, kafka_ok)} :
            pub_call' = [called |-> TRUE, events |-> events, kafka_ok |-> kafka_ok,
                         raised |-> p.raised, sent |-> p.sent]
    /\ fp_call' = NoFpCall
    /\ UNCHANGED <<http_call, backoff_call>>
    /\ UNCHANGED <<mainVars, saving, rpVars, queueVars, limVars, stepVars>>

InitUnit == IdleMain /\ IdleState /\ IdleUnit /\ IdleRp /\ IdleQueue /\ IdleLim /\ IdleStep

\* the call has returned; the next one starts afresh
ReturnUnit ==
    /\ fp_call.called \/ pub_call.called \/ http_call.called \/ backoff_call.called
    /\ fp_call' = NoFpCall
    /\ pub_call' = NoPubCall
    /\ http_call' = NoHttpCall
    /\ backoff_call' = NoBackoffCall
    /\ UNCHANGED <<mainVars, saving, rpVars, queueVars, limVars, stepVars>>

UnitNext == CallFingerprint \/ CallProduceAll \/ ReturnUnit

UnitSpec == InitUnit /\ [][UnitNext]_vars

\* ------------------------------------------------------ ResilientProducer
\* src/producer/resilience.py.  bytes are integers (0 is b"" and None alike,
\* both falsy), the str a bytes value decodes to is that integer plus 100.
\* A dict that is iterated (_pending) is the list of its <<key, value>> entries
\* in insertion order.
MaxInflight == 2
MaxDlq == 2
MaxCount == 2

\* the messages the application sends: one with an empty key, two that share
\* a key and differ in value
RpMessages == {<<0, 21>>, <<11, 21>>, <<11, 22>>}

\* bytes that are not valid UTF-8 (b"\xff"); 99 is b"\xef\xbf\xbd", the
\* encoding of U+FFFD, the text 199
InvalidBytes == 90..98

\* bytes.decode("utf-8", errors="replace") and str.encode("utf-8")
Decode(b) == IF b \in InvalidBytes THEN 199 ELSE b + 100

Encode(t) == t - 100

\* hash(value): no two values of RpMessages collide
Hash(value) == 1000 + value

\* lines 351, 366
MsgId(key, value) == <<Decode(key), Hash(value)>>

\* self._pending[msg_id] = (key, value): an entry already there keeps its place
PendingPut(p, key, value) ==
    IF \E i \in DOMAIN p : p[i][1] = MsgId(key, value)
    THEN [i \in DOMAIN p |-> IF p[i][1] = MsgId(key, value)
                             THEN <<MsgId(key, value), <<key, value>>>> ELSE p[i]]
    ELSE Append(p, <<MsgId(key, value), <<key, value>>>>)

\* self._pending.pop(msg_id, None)
PendingPop(p, msg_id) == SelectSeq(p, LAMBDA e : e[1] # msg_id)

\* DiskQueue.enqueue, lines 192-201: one JSON line (its "ts" is never read back)
enqueue(q, key, value) == Append(q, [key |-> Decode(key), value |-> Decode(value)])

\* Lines enqueue did not write in full: text that is no JSON document (the
\* beginning of an entry whose write was cut short, a stray word) and a line of
\* white space only.  Each ends with a newline, so what enqueue appends next
\* is a line of its own.
TornLine == [key |-> -1, value |-> -1]

BlankLine == [key |-> -2, value |-> -2]

\* lines 216-218: line.strip() is empty
IsBlank(line) == line = BlankLine

\* line 220: json.loads(line) raises json.JSONDecodeError
json_loads_raisesNever(line) == FALSE

json_loads_raises(line) == line = TornLine

\* lines 214-225: the lines that reach messages.append
Parsed(q) == SelectSeq(q, LAMBDA line : ~IsBlank(line) /\ ~json_loads_raises(line))

\* DiskQueue.dequeue_all, lines 203-230: the messages read; the file is unlinked
dequeue_allNewestFirst(q) ==
    [i \in 1..Len(q) |-> <<Encode(q[Len(q) + 1 - i].key), Encode(q[Len(q) + 1 - i].value)>>]

dequeue_all(q) ==
    [i \in 1..Len(Parsed(q)) |-> <<Encode(Parsed(q)[i].key), Encode(Parsed(q)[i].value)>>]

\* DiskQueue.size, lines 232-241: the lines of the file that are not blank
size(q) == Len(SelectSeq(q, LAMBDA line : ~IsBlank(line)))

\* ProduceStats, lines 254-270: elapsed says the window has run out
record_success(st, elapsed) ==
    [success_count |-> (IF elapsed THEN 0 ELSE st.success_count) + 1,
     failure_count |-> IF elapsed THEN 0 ELSE st.failure_count]

record_failure(st, elapsed) ==
    [success_count |-> IF elapsed THEN 0 ELSE st.success_count,
     failure_count |-> (IF elapsed THEN 0 ELSE st.failure_count) + 1]

\* The producer's fields as one record R: pending, dlq, stats, and inflight,
\* the messages the Kafka client has taken.
\* lines 347-362
DeliveryCallbackNoQueue(R, has_throttler, err, key, value, elapsed) ==
    [R EXCEPT !.pending = PendingPop(@, MsgId(PyOr(key, 0), PyOr(value, 0))),
              !.stats = IF ~has_throttler THEN @
                        ELSE IF err THEN record_failure(@, elapsed)
                        ELSE record_success(@, elapsed)]

DeliveryCallback(R, has_throttler, err, key, value, elapsed) ==
    [R EXCEPT !.pending = PendingPop(@, MsgId(PyOr(key, 0), PyOr(value, 0))),
              !.dlq = IF err THEN enqueue(@, PyOr(key, 0), PyOr(value, 0)) ELSE @,
              !.stats = IF ~has_throttler THEN @
                        ELSE IF err THEN record_failure(@, elapsed)
                        ELSE record_success(@, elapsed)]

\* lines 364-377.  accepted: self._producer.produce took the message; it raises
\* (BufferError, KafkaException) otherwise, after the entry was put in _pending.
\* maybe_throttle only sleeps.
produce(R, key, value, accepted) ==
    [R EXCEPT !.pending = PendingPut(@, key, value),
              !.inflight = IF accepted THEN Append(@, <<key, value>>) ELSE @]

RECURSIVE EnqueueAll(_, _)
EnqueueAll(q, p) ==
    IF p = <<>> THEN q ELSE EnqueueAll(enqueue(q, Head(p)[2][1], Head(p)[2][2]), Tail(p))

\* lines 379-393, remaining being what self._producer.flush(timeout) returned
flushDrop(R, remaining) ==
    IF remaining > 0 THEN [R EXCEPT !.pending = <<>>] ELSE R

flush(R, remaining) ==
    IF remaining > 0
    THEN [R EXCEPT !.dlq = EnqueueAll(@, R.pending), !.pending = <<>>]
    ELSE R

\* lines 402-403: produce for each message, up to the one that raises
\* (fail_at, 0 for none)
RECURSIVE RetryLoop(_, _, _, _)
RetryLoop(R, messages, i, fail_at) ==
    IF i > Len(messages) THEN R
    ELSE IF i = fail_at THEN produce(R, messages[i][1], messages[i][2], FALSE)
    ELSE RetryLoop(produce(R, messages[i][1], messages[i][2], TRUE), messages, i + 1, fail_at)

\* lines 395-406
retry_dlqKeepFile(R, fail_at) ==
    RetryLoop(R, dequeue_all(R.dlq), 1, fail_at)

retry_dlq(R, fail_at) ==
    RetryLoop([R EXCEPT !.dlq = <<>>], dequeue_all(R.dlq), 1, fail_at)

RpState == [pending |-> pending, dlq |-> dlq, stats |-> stats, inflight |-> inflight]

RpCall(op) == [NoRpCall EXCEPT !.op = op]

rpIdle == <<mainVars, saving, unitVars, queueVars, limVars, stepVars>>

\* the application calls ResilientProducer.produce
Produce ==
    /\ Len(inflight) < MaxInflight
    /\ \E m \in RpMessages, accepted \in BOOLEAN :
         \E R \in {produce(RpState, m[1], m[2], accepted)} :
            /\ pending' = R.pending
            /\ inflight' = R.inflight
            /\ rp_last' = [RpCall("produce") EXCEPT !.key = m[1], !.value = m[2],
                                                    !.raised = ~accepted]
            /\ rp_produced' = rp_produced \cup {m}
    /\ UNCHANGED <<throttler, dlq, stats, rp_delivered>>
    /\ UNCHANGED rpIdle

\* the Kafka client, polled, reports the fate of one message it holds
DeliveryReport ==
    /\ \E i \in DOMAIN inflight, err \in BOOLEAN, elapsed \in BOOLEAN :
         \E R \in {DeliveryCallback(RpState, throttler, err, inflight[i][1], inflight[i][2],
                                    elapsed)} :
            /\ err => Len(dlq) < MaxDlq
            /\ R.stats.success_count <= MaxCount /\ R.stats.failure_count <= MaxCount
            /\ pending' = R.pending
            /\ dlq' = R.dlq
            /\ stats' = R.stats
            /\ inflight' = SubSeq(inflight, 1, i - 1) \o SubSeq(inflight, i + 1, Len(inflight))
            /\ rp_last' = [RpCall("callback") EXCEPT !.key = inflight[i][1],
                               !.value = inflight[i][2], !.err = err, !.elapsed = elapsed]
            /\ rp_delivered' = IF err THEN rp_delivered ELSE rp_delivered \cup {inflight[i]}
    /\ UNCHANGED <<throttler, rp_produced>>
    /\ UNCHANGED rpIdle

\* the application calls ResilientProducer.flush; the client's flush returns
\* the number of messages it still holds
Flush ==
    /\ Len(dlq) + Len(pending) <= MaxDlq
    /\ \E R \in {flush(RpState, Len(inflight))} :
         /\ pending' = R.pending
         /\ dlq' = R.dlq
         /\ rp_last' = [RpCall("flush") EXCEPT !.remaining = Len(inflight)]
    /\ UNCHANGED <<throttler, stats, inflight, rp_produced, rp_delivered>>
    /\ UNCHANGED rpIdle

\* the application calls ResilientProducer.retry_dlq
RetryDlq ==
    /\ Len(inflight) + Len(dlq) <= MaxInflight
    /\ \E fail_at \in 0..Len(dlq) :
         \E R \in {retry_dlq(RpState, fail_at)} :
            /\ pending' = R.pending
            /\ dlq' = R.dlq
            /\ inflight' = R.inflight
            /\ rp_last' = [RpCall("retry_dlq") EXCEPT
                               !.raised = fail_at > 0,
                               !.returned = IF fail_at > 0 THEN 0 ELSE Len(dequeue_all(dlq)),
                               !.submitted = SubSeq(dequeue_all(dlq), 1,
                                                    IF fail_at > 0 THEN fail_at ELSE Len(dlq))]
            /\ rp_produced' = rp_produced \cup
                   {dequeue_all(dlq)[j] : j \in 1..(IF fail_at > 0 THEN fail_at ELSE Len(dlq))}
    /\ UNCHANGED <<throttler, stats, rp_delivered>>
    /\ UNCHANGED rpIdle

InitRp ==
    /\ IdleMain /\ IdleState /\ IdleUnit /\ IdleQueue /\ IdleLim /\ IdleStep
    /\ rp_produced = {}
    /\ rp_delivered = {}
    /\ throttler \in BOOLEAN
    /\ pending = <<>>
    /\ dlq = <<>>
    /\ stats = NoStats
    /\ inflight = <<>>
    /\ rp_last = NoRpCall

RpNext == Produce \/ DeliveryReport \/ Flush \/ RetryDlq

ResilientSpec == InitRp /\ [][RpNext]_vars

\* ------------------------------------------------- DiskQueue under threads
\* One DiskQueue shared by threads (the poll thread, the client's delivery
\* callbacks).  Every method is "with self._lock:" around its file accesses; a
\* step is one file access or one lock operation.  dlq is the queue file.
MaxEnq == 3

\* the messages given to enqueue: two that are valid UTF-8, one whose key is not
QMessages == {<<11, 21>>, <<11, 22>>, <<98, 21>>}

\* threading.Lock.acquire, lines 198, 209, 234
CanAcquireAlways(lock) == TRUE

CanAcquire(lock) == lock = 0

queueIdle ==
    <<mainVars, saving, unitVars, limVars, stepVars, throttler, pending, stats, inflight, rp_last,
      rp_produced, rp_delivered>>

\* a thread calls enqueue(key, value), dequeue_all() or size()
QueueCall(t) ==
    /\ q_pc[t] = "idle"
    /\ \/ /\ q_next < MaxEnq
          /\ \E m \in QMessages : q_local' = [q_local EXCEPT ![t] = <<m>>]
          /\ q_next' = q_next + 1
          /\ q_pc' = [q_pc EXCEPT ![t] = "enq_wait"]
       \/ /\ q_pc' = [q_pc EXCEPT ![t] = "deq_wait"]
          /\ UNCHANGED <<q_local, q_next>>
       \/ /\ q_pc' = [q_pc EXCEPT ![t] = "size_wait"]
          /\ UNCHANGED <<q_local, q_next>>
    /\ UNCHANGED <<dlq, q_lock, q_done, q_since, q_out, q_last>>
    /\ UNCHANGED queueIdle

\* with self._lock: entered
QueueAcquire(t) ==
    /\ q_pc[t] \in {"enq_wait", "deq_wait", "size_wait"}
    /\ CanAcquire(q_lock)
    /\ q_lock' = t
    /\ q_pc' = [q_pc EXCEPT ![t] = CASE q_pc[t] = "enq_wait" -> "enq_in"
                                      [] q_pc[t] = "deq_wait" -> "deq_in"
                                      [] OTHER -> "size_in"]
    /\ UNCHANGED <<dlq, q_local, q_next, q_done, q_since, q_out, q_last>>
    /\ UNCHANGED queueIdle

\* enqueue, lines 199-201: the line is appended, the lock released
EnqueueWrite(t) ==
    /\ q_pc[t] = "enq_in"
    /\ dlq' = enqueue(dlq, q_local[t][1][1], q_local[t][1][2])
    /\ q_done' = Append(q_done, q_local[t][1])
    /\ q_since' = Append(q_since, q_local[t][1])
    /\ q_last' = [NoQueueCall EXCEPT !.op = "enqueue"]
    /\ q_lock' = 0
    /\ q_pc' = [q_pc EXCEPT ![t] = "idle"]
    /\ q_local' = [q_local EXCEPT ![t] = <<>>]
    /\ UNCHANGED <<q_next, q_out>>
    /\ UNCHANGED queueIdle

\* dequeue_all, lines 210-227: no file, return []; else the lines are read
DequeueRead(t) ==
    /\ q_pc[t] = "deq_in"
    /\ IF dlq = <<>>
       THEN /\ q_last' = [NoQueueCall EXCEPT !.op = "dequeue_all", !.since = q_since,
                                             !.after_drain = q_last.op = "dequeue_all",
                                             !.size = size(dlq)]
            /\ q_since' = <<>>
            /\ q_lock' = 0
            /\ q_pc' = [q_pc EXCEPT ![t] = "idle"]
            /\ UNCHANGED q_local
       ELSE /\ q_local' = [q_local EXCEPT ![t] = dequeue_all(dlq)]
            /\ q_pc' = [q_pc EXCEPT ![t] = "deq_read"]
            /\ UNCHANGED <<q_last, q_since, q_lock>>
    /\ UNCHANGED <<dlq, q_next, q_done, q_out>>
    /\ UNCHANGED queueIdle

\* dequeue_all, lines 228-230: the file is unlinked, the messages returned
DequeueUnlink(t) ==
    /\ q_pc[t] = "deq_read"
    /\ dlq' = <<>>
    /\ q_out' = q_out \o q_local[t]
    /\ q_last' = [NoQueueCall EXCEPT !.op = "dequeue_all", !.ret = q_local[t],
                                     !.since = q_since, !.file = dlq,
                                     !.after_drain = q_last.op = "dequeue_all",
                                     !.size = size(dlq')]
    /\ q_since' = <<>>
    /\ q_lock' = 0
    /\ q_pc' = [q_pc EXCEPT ![t] = "idle"]
    /\ q_local' = [q_local EXCEPT ![t] = <<>>]
    /\ UNCHANGED <<q_next, q_done>>
    /\ UNCHANGED queueIdle

\* size, lines 235-241
SizeRead(t) ==
    /\ q_pc[t] = "size_in"
    /\ q_last' = [NoQueueCall EXCEPT !.op = "size", !.size = size(dlq)]
    /\ q_lock' = 0
    /\ q_pc' = [q_pc EXCEPT ![t] = "idle"]
    /\ UNCHANGED <<dlq, q_local, q_next, q_done, q_since, q_out>>
    /\ UNCHANGED queueIdle

\* What an earlier run of the process left behind: the queue file and the
\* messages its enqueue calls were given.  A write cut short leaves a torn line.
QueueHistories ==
    {[file |-> <<>>, enq |-> <<>>],
     [file |-> <<TornLine>>, enq |-> <<>>],
     [file |-> enqueue(<<>>, 11, 21) \o <<TornLine, BlankLine>> \o enqueue(<<>>, 11, 22),
      enq |-> <<<<11, 21>>, <<11, 22>>>>],
     [file |-> <<BlankLine, TornLine>> \o enqueue(<<>>, 11, 22), enq |-> <<<<11, 22>>>>]}

InitQueue ==
    /\ IdleMain /\ IdleState /\ IdleUnit /\ IdleLim /\ IdleStep
    /\ throttler = TRUE
    /\ pending = <<>>
    /\ stats = NoStats
    /\ inflight = <<>>
    /\ rp_last = NoRpCall
    /\ rp_produced = {}
    /\ rp_delivered = {}
    /\ \E h \in QueueHistories :
          /\ dlq = h.file
          /\ q_done = h.enq
          /\ q_since = h.enq
    /\ q_lock = 0
    /\ q_pc = [t \in QThreads |-> "idle"]
    /\ q_local = [t \in QThreads |-> <<>>]
    /\ q_next = 0
    /\ q_out = <<>>
    /\ q_last = NoQueueCall

QueueNext ==
    \E t \in QThreads :
        \/ QueueCall(t)
        \/ QueueAcquire(t)
        \/ EnqueueWrite(t)
        \/ DequeueRead(t)
        \/ DequeueUnlink(t)
        \/ SizeRead(t)

QueueSpec == InitQueue /\ [][QueueNext]_vars

\* ------------------------------- ExponentialBackoff, http_request_with_retry
\* src/producer/resilience.py.  Delays are in ms; jitter_factor is in percent.
MaxAttempt == 4

BaseDelays == {0, 2, 3}

MaxDelays == {0, 5, 8}

JitterPcts == {0, 50, 150}

RECURSIVE Pow2(_)
Pow2(n) == IF n = 0 THEN 1 ELSE 2 * Pow2(n - 1)

Min(a, b) == IF a <= b THEN a ELSE b

Max(a, b) == IF a >= b THEN a ELSE b

\* the integers int(delay + jitter) can be for jitter = random.uniform(-r, r)
\* with r = delay * pct / 100: delay - ceil(r) .. delay + floor(r)
JitterDraws(delay, pct) == (0 - ((delay * pct + 99) \div 100)) .. ((delay * pct) \div 100)

\* lines 51-63; jitter is the integer the draw of line 62 adds
delay_msUncapped(base_delay_ms, max_delay_ms, attempt, jitter) ==
    Max(0, base_delay_ms * Pow2(attempt) + jitter)

delay_ms(base_delay_ms, max_delay_ms, attempt, jitter) ==
    Max(0, Min(base_delay_ms * Pow2(attempt), max_delay_ms) + jitter)

\* line 72
RETRYABLE_STATUS_CODES == {429, 500, 502, 503, 504}

\* lines 75-84, on the class of the exception
is_retryable_error(exc) == exc \in {"Timeout", "ConnectionError", "ChunkedEncodingError"}

\* lines 87-89
is_retryable_statusAnyError(status_code) == status_code >= 400

is_retryable_status(status_code) == status_code \in RETRYABLE_STATUS_CODES

\* requests.RequestException and its subclasses
IsRequestException(exc) ==
    exc \in {"Timeout", "ConnectionError", "ChunkedEncodingError", "HTTPError"}

\* A Retry-After header: None when absent, else its text: 100 is "", 150 an
\* HTTP date, 200 + n the decimal text of the integer n.
IntTexts == {198, 200, 202}

HeaderTexts == {None, 100, 150} \cup IntTexts

\* int(retry_after), line 129: ValueError for a text that is no integer
int_raisesAlways(text) == TRUE

int_raises(text) == text \notin IntTexts

ParseInt(text) == text - 200

\* time.sleep(secs), line 130: ValueError for a negative length
sleep_raises(secs) == secs < 0

\* lines 127-134: what is slept before the next attempt after a retryable status
RetryAfterSleep(retry_after, attempt) ==
    IF retry_after \notin {None, 100} /\ ~int_raises(retry_after)
                                      /\ ~sleep_raises(ParseInt(retry_after))
    THEN [kind |-> "retry_after", arg |-> ParseInt(retry_after)]
    ELSE [kind |-> "backoff", arg |-> attempt]

\* what session.request does on one attempt
Response(status, retry_after) ==
    [kind |-> "response", status |-> status, retry_after |-> retry_after, exc |-> "none"]

Raises(exc) == [kind |-> "exception", status |-> None, retry_after |-> None, exc |-> exc]

Outcomes ==
    {Response(200, None), Response(404, None), Response(503, None), Response(503, 202)}
    \cup {Response(429, h) : h \in HeaderTexts}
    \cup {Raises(e) : e \in {"Timeout", "ConnectionError", "ChunkedEncodingError",
                              "HTTPError", "ValueError"}}

HttpResult(requests, sleeps, result, status, exc) ==
    [requests |-> requests, sleeps |-> sleeps, result |-> result, status |-> status,
     exc |-> exc]

\* lines 119-145: the for loop from the given attempt on
RECURSIVE Attempts(_, _, _, _)
Attempts(outcomes, max_retries, attempt, sleeps) ==
    IF attempt > max_retries
    THEN HttpResult(attempt, sleeps, "raise", None, "RuntimeError")
    ELSE LET o == outcomes[attempt + 1] IN
         IF o.kind = "response"
         THEN IF is_retryable_status(o.status)
              THEN IF attempt < max_retries
                   THEN Attempts(outcomes, max_retries, attempt + 1,
                                 Append(sleeps, RetryAfterSleep(o.retry_after, attempt)))
                   ELSE HttpResult(attempt + 1, sleeps, "raise", None, "HTTPError")
              ELSE HttpResult(attempt + 1, sleeps, "return", o.status, "none")
         ELSE IF IsRequestException(o.exc) /\ is_retryable_error(o.exc)
                                           /\ attempt < max_retries
              THEN Attempts(outcomes, max_retries, attempt + 1,
                            Append(sleeps, [kind |-> "backoff", arg |-> attempt]))
              ELSE HttpResult(attempt + 1, sleeps, "raise", None, o.exc)

\* lines 92-149
http_request_with_retryOneLess(outcomes, max_retries) ==
    Attempts(outcomes, max_retries - 1, 0, <<>>)

http_request_with_retry(outcomes, max_retries) == Attempts(outcomes, max_retries, 0, <<>>)

MaxRetries == 2

\* what session.request does on each of the attempts of one call
OutcomeSeqs(n) == [1..n -> Outcomes]

\* lines 92-149, called with config.max_retries and a session
CallHttp ==
    /\ IdleUnit
    /\ \E max_retries \in -1..MaxRetries :
         \E outcomes \in OutcomeSeqs(max_retries + 1) :
            \E r \in {http_request_with_retry(outcomes, max_retries)} :
               http_call' = [called |-> TRUE, max_retries |-> max_retries,
                             outcomes |-> outcomes, requests |-> r.requests,
                             sleeps |-> r.sleeps, result |-> r.result,
                             status |-> r.status, exc |-> r.exc]
    /\ UNCHANGED <<fp_call, pub_call, backoff_call>>
    /\ UNCHANGED <<mainVars, saving, rpVars, queueVars, limVars, stepVars>>

\* lines 51-63, called on a configuration and an attempt index
CallDelayMs ==
    /\ IdleUnit
    /\ \E base \in BaseDelays, max \in MaxDelays, pct \in JitterPcts, attempt \in 0..MaxAttempt :
         \E jitter \in JitterDraws(Min(base * Pow2(attempt), max), pct) :
            backoff_call' = [called |-> TRUE, base_delay_ms |-> base, max_delay_ms |-> max,
                             jitter_pct |-> pct, attempt |-> attempt, jitter |-> jitter,
                             delay |-> delay_ms(base, max, attempt, jitter)]
    /\ UNCHANGED <<fp_call, pub_call, http_call>>
    /\ UNCHANGED <<mainVars, saving, rpVars, queueVars, limVars, stepVars>>

RetryNext == CallHttp \/ CallDelayMs \/ ReturnUnit

RetrySpec == InitUnit /\ [][RetryNext]_vars

\* --------------------------------------------------------- InflightLimiter
\* src/producer/resilience.py, lines 153-173: threads running "with limiter:".
MaxInflightPolls == 2

limIdle == <<mainVars, saving, unitVars, rpVars, queueVars, stepVars>>

\* threading.Semaphore.acquire, line 164: blocks while the counter is 0
SemaphoreFreeAlways(value) == TRUE

SemaphoreFree(value) == value > 0

\* a thread reaches "with limiter:" and calls __enter__, line 163
LimiterEnter(t) ==
    /\ lim_pc[t] = "out"
    /\ lim_pc' = [lim_pc EXCEPT ![t] = "waiting"]
    /\ UNCHANGED <<lim_max, lim_value, lim_exc>>
    /\ UNCHANGED limIdle

\* self._semaphore.acquire() returns, lines 164-165
LimiterAcquire(t) ==
    /\ lim_pc[t] = "waiting"
    /\ SemaphoreFree(lim_value)
    /\ lim_value' = lim_value - 1
    /\ lim_pc' = [lim_pc EXCEPT ![t] = "inside"]
    /\ UNCHANGED <<lim_max, lim_exc>>
    /\ UNCHANGED limIdle

\* the block ends, normally or by an exception: __exit__, lines 167-169,
\* releases and returns False, so an exception goes on to the caller
LimiterExit(t) ==
    /\ lim_pc[t] = "inside"
    /\ \E by_exception \in BOOLEAN : lim_exc' = [lim_exc EXCEPT ![t] = by_exception]
    /\ lim_value' = lim_value + 1
    /\ lim_pc' = [lim_pc EXCEPT ![t] = "out"]
    /\ UNCHANGED lim_max
    /\ UNCHANGED limIdle

\* lines 156-161
InitLimiter ==
    /\ IdleMain /\ IdleState /\ IdleUnit /\ IdleRp /\ IdleQueue /\ IdleStep
    /\ lim_max \in 1..MaxInflightPolls
    /\ lim_value = lim_max
    /\ lim_pc = [t \in LimThreads |-> "out"]
    /\ lim_exc = [t \in LimThreads |-> FALSE]

LimiterNext == \E t \in LimThreads : LimiterEnter(t) \/ LimiterAcquire(t) \/ LimiterExit(t)

LimiterSpec == InitLimiter /\ [][LimiterNext]_vars

\* a thread in acquire goes on when the counter stays above 0: release wakes
\* it (Condition.notify) and the interpreter schedules every thread.  The
\* semaphore keeps no queue: a thread that arrives later can take the slot first.
LimiterFairSpec == LimiterSpec /\ \A t \in LimThreads : WF_vars(LimiterAcquire(t))

\* ------------------------------------------- ProduceStats and RateThrottler
\* The clock runs from 0, the time of construction, to MaxNow seconds; a window
\* holds at most MaxStat events before it is reset.
MaxNow == 4

MaxStat == 3

\* RateThrottler(min_delay_ms, max_delay_ms, failure_threshold), lines 289-298;
\* the threshold is kept in percent
DelayRanges == {<<0, 500>>, <<100, 500>>, <<100, 100>>}

ThresholdPcts == {0, 50, 100}

\* ProduceStats.window_seconds, line 252
WindowSeconds == {1, 2}

\* line 266: now - self.window_start > self.window_seconds
WindowElapsedNever(ps, now, window_seconds) == FALSE

WindowElapsed(ps, now, window_seconds) == now - ps.window_start > window_seconds

\* the two counters of a ProduceStats
Counters(ps) == [success_count |-> ps.success_count, failure_count |-> ps.failure_count]

\* lines 254-270 with the clock: _maybe_reset_window, then the increment
WithWindow(ps, counters, now, window_seconds) ==
    [success_count |-> counters.success_count,
     failure_count |-> counters.failure_count,
     window_start |-> IF WindowElapsed(ps, now, window_seconds) THEN now
                      ELSE ps.window_start]

RecordSuccessAt(ps, now, window_seconds) ==
    WithWindow(ps, record_success(Counters(ps), WindowElapsed(ps, now, window_seconds)),
               now, window_seconds)

RecordFailureAt(ps, now, window_seconds) ==
    WithWindow(ps, record_failure(Counters(ps), WindowElapsed(ps, now, window_seconds)),
               now, window_seconds)

\* lines 280-283
total(ps) == ps.success_count + ps.failure_count

\* lines 272-278: the ratio as <<numerator, denominator>>, 0.0 as <<0, 1>>
failure_ratio(ps) == IF total(ps) = 0 THEN <<0, 1>> ELSE <<ps.failure_count, total(ps)>>

\* line 310: self._stats.failure_ratio > self._failure_threshold
ExceedsThresholdOrEqual(ratio, threshold_pct) == ratio[1] * 100 >= threshold_pct * ratio[2]

ExceedsThreshold(ratio, threshold_pct) == ratio[1] * 100 > threshold_pct * ratio[2]

\* lines 312-313: ratio = min(failure_ratio, 1.0);
\* delay_ms = min_delay_ms + (max_delay_ms - min_delay_ms) * ratio, as
\* <<numerator, denominator>>
throttle_delay_ms(min_delay_ms, max_delay_ms, ratio) ==
    LET capped == IF ratio[1] > ratio[2] THEN <<1, 1>> ELSE ratio
    IN <<min_delay_ms * capped[2] + (max_delay_ms - min_delay_ms) * capped[1], capped[2]>>

\* lines 308-314: whether time.sleep is called, and with how many milliseconds
maybe_throttle(ps, min_delay_ms, max_delay_ms, threshold_pct) ==
    IF ExceedsThreshold(failure_ratio(ps), threshold_pct)
    THEN [slept |-> TRUE,
          delay |-> throttle_delay_ms(min_delay_ms, max_delay_ms, failure_ratio(ps))]
    ELSE [slept |-> FALSE, delay |-> <<0, 1>>]

\* the latest call on the throttler: the statistics it found, the time, and
\* what it returned or slept
ThCall(op) ==
    [op |-> op, before |-> th.stats, at |-> th.now, slept |-> FALSE, delay |-> <<0, 1>>,
     ratio |-> <<0, 1>>, total |-> 0]

throttlerIdle == <<mainVars, saving, unitVars, rpVars, queueVars, limVars, paging, lk>>

\* time.time() moves on
ThTick ==
    /\ th.now < MaxNow
    /\ th' = [th EXCEPT !.now = @ + 1]
    /\ UNCHANGED throttlerIdle

\* RateThrottler.record_success, lines 300-302
ThRecordSuccess ==
    /\ total(th.stats) < MaxStat \/ WindowElapsed(th.stats, th.now, th.window_seconds)
    /\ th' = [th EXCEPT !.stats = RecordSuccessAt(th.stats, th.now, th.window_seconds),
                        !.last = ThCall("record_success")]
    /\ UNCHANGED throttlerIdle

\* RateThrottler.record_failure, lines 304-306
ThRecordFailure ==
    /\ total(th.stats) < MaxStat \/ WindowElapsed(th.stats, th.now, th.window_seconds)
    /\ th' = [th EXCEPT !.stats = RecordFailureAt(th.stats, th.now, th.window_seconds),
                        !.last = ThCall("record_failure")]
    /\ UNCHANGED throttlerIdle

\* throttler.stats.failure_ratio is read
ThReadRatio ==
    /\ th' = [th EXCEPT !.last = [ThCall("failure_ratio") EXCEPT
                                     !.ratio = failure_ratio(th.stats)]]
    /\ UNCHANGED throttlerIdle

\* throttler.stats.total is read
ThReadTotal ==
    /\ th' = [th EXCEPT !.last = [ThCall("total") EXCEPT !.total = total(th.stats)]]
    /\ UNCHANGED throttlerIdle

\* RateThrottler.maybe_throttle, lines 308-314
ThMaybeThrottle ==
    /\ \E r \in {maybe_throttle(th.stats, th.min_delay_ms, th.max_delay_ms,
                                 th.threshold_pct)} :
          th' = [th EXCEPT !.last = [ThCall("maybe_throttle") EXCEPT
                                        !.slept = r.slept, !.delay = r.delay,
                                        !.ratio = failure_ratio(th.stats)]]
    /\ UNCHANGED throttlerIdle

InitThrottler ==
    /\ IdleMain /\ IdleState /\ IdleUnit /\ IdleRp /\ IdleQueue /\ IdleLim
    /\ paging = NoPaging /\ lk = NoLocks
    /\ \E d \in DelayRanges, p \in ThresholdPcts, w \in WindowSeconds :
          th = [min_delay_ms |-> d[1], max_delay_ms |-> d[2], threshold_pct |-> p,
                window_seconds |-> w,
                stats |-> [success_count |-> 0, failure_count |-> 0, window_start |-> 0],
                now |-> 0,
                last |-> [op |-> "none",
                          before |-> [success_count |-> 0, failure_count |-> 0,
                                      window_start |-> 0],
                          at |-> 0, slept |-> FALSE, delay |-> <<0, 1>>,
                          ratio |-> <<0, 1>>, total |-> 0]]

ThrottlerNext ==
    \/ ThTick
    \/ ThRecordSuccess
    \/ ThRecordFailure
    \/ ThReadRatio
    \/ ThReadTotal
    \/ ThMaybeThrottle

ThrottlerSpec == InitThrottler /\ [][ThrottlerNext]_vars

\* ------------------------------------------ fetch_since, one page at a time
\* The upstream holds at most MaxPagedRows rows, or never runs out; a call is
\* followed for at most MaxPages requests to one base.
MaxPagedRows == 5

MaxPages == 4

\* a row that maps to a record, and one whose fecha_carg cannot be parsed
PagedRows ==
    {[fiwareid |-> 1, objectid |-> None, fecha_carg |-> 30, temperatur |-> 1],
     [fiwareid |-> 1, objectid |-> None, fecha_carg |-> BadTs, temperatur |-> 1]}

\* What the upstream holds: the rows of a snapshot, or (endless) a full page
\* of rows[1] whatever page is asked for.
Upstreams ==
    {[rows |-> s, endless |-> FALSE] : s \in SeqsUpTo(PagedRows, MaxPagedRows)}
    \cup {[rows |-> <<r>>, endless |-> TRUE] :
             r \in {[fiwareid |-> 1, objectid |-> None, fecha_carg |-> 30,
                     temperatur |-> 1]}}

PagedFailPatterns == [1..Len(BASES) -> -1..2]

\* line 262: "offset": str(page * LIMIT)
RequestOffset(page) == page * LIMIT

\* lines 267-269: resp.json().get("results", [])
ServedRows(up, page) ==
    IF up.endless THEN [i \in 1..LIMIT |-> up.rows[1]]
    ELSE PageRows(up.rows, RequestOffset(page) \div LIMIT)

pagingIdle == <<mainVars, saving, unitVars, rpVars, queueVars, limVars, th, lk>>

\* lines 258-312: one pass of the while loop: the request, its answer, the rows
\* of the page; then the way out of the loop, of the base, of the function
PageStep ==
    /\ paging.pc = "page"
    /\ paging.page < MaxPages
    /\ \E failed \in {paging.fail[paging.b] = paging.page},
          rows \in {ServedRows(paging.up, paging.page)} :
       \E s \in {PageOnce(paging.st, paging.b, paging.page, failed, rows,
                          paging.offset_iso, paging.seen_for_offset)} :
          paging' = [paging EXCEPT
                       !.st = [s EXCEPT !.ctl = "run"],
                       !.served = Append(@, [b |-> paging.b, page |-> paging.page,
                                             offset |-> RequestOffset(paging.page),
                                             failed |-> failed,
                                             n |-> IF failed THEN 0 ELSE Len(rows),
                                             ctl |-> s.ctl]),
                       !.page = IF s.ctl = "run" THEN @ + 1 ELSE 0,
                       !.b = IF s.ctl = "run" THEN @ ELSE @ + 1,
                       !.pc = IF s.ctl = "raise" THEN "raised"
                              ELSE IF s.ctl = "run" THEN "page"
                              ELSE IF BaseEnds(s) \/ paging.b = Len(BASES) THEN "return"
                              ELSE "page",
                       !.partial = s.ctl = "return"]
    /\ UNCHANGED pagingIdle

\* lines 274-275, 317-321: return out, max_ts, seen_map from the except branch,
\* return out, new_offset, seen_map at the end
FetchReturn ==
    /\ paging.pc = "return"
    /\ paging' = [paging EXCEPT
                    !.pc = "done",
                    !.result = [out |-> paging.st.out,
                                new_offset |-> IF paging.partial THEN paging.st.max_ts
                                               ELSE NewOffset(paging.st.max_ts,
                                                              paging.offset_iso),
                                seen_map |-> paging.st.seen_map]]
    /\ UNCHANGED pagingIdle

InitPaging ==
    /\ IdleMain /\ IdleState /\ IdleUnit /\ IdleRp /\ IdleQueue /\ IdleLim
    /\ th = NoThrottler /\ lk = NoLocks
    /\ \E up \in Upstreams, fail \in PagedFailPatterns, seen_for_offset \in InitSeenMaps :
          paging = [pc |-> "page", b |-> 1, page |-> 0,
                    st |-> [out |-> <<>>, max_ts |-> 2, seen_map |-> seen_for_offset,
                            ctl |-> "run", requests |-> <<>>, fetched |-> <<>>,
                            caller |-> seen_for_offset],
                    up |-> up, fail |-> fail,
                    offset_iso |-> 2, seen_for_offset |-> seen_for_offset,
                    served |-> <<>>, partial |-> FALSE,
                    result |-> [out |-> <<>>, new_offset |-> None,
                                seen_map |-> EmptyDict]]

PagingNext == PageStep \/ FetchReturn

\* the thread that called fetch_since keeps running, and a request is answered
PagingSpec ==
    InitPaging /\ [][PagingNext]_vars /\ WF_vars(PageStep) /\ WF_vars(FetchReturn)

\* ------------------------------- ResilientProducer and DiskQueue: the locks
\* Threads call produce, flush, retry_dlq and dlq_size, MaxLockOps calls each;
\* pending, the queue file and the client's queue hold at most MaxHeld messages.
NumLockThreads == 2

MaxLockOps == 2

MaxHeld == 2

LockThreads == 1..NumLockThreads

\* the end of a with block: threading.Lock.release
ReleasedNever(holder) == holder

Released(holder) == 0

\* with self._lock: of ResilientProducer (lines 352, 367, 388)
ProducerLockPcs == {"produce_lock", "callback_lock", "flush_lock"}

\* with self._lock: of DiskQueue (lines 198, 209, 234)
DlqLockPcs == {"enqueue_lock", "flush_enqueue_lock", "dequeue_lock", "size_lock"}

\* where a thread is once it has the lock it waited for
AfterAcquire(at) ==
    CASE at = "produce_lock" -> "produce_pending"
      [] at = "callback_lock" -> "callback_pop"
      [] at = "flush_lock" -> "flush_loop"
      [] at = "enqueue_lock" -> "enqueue_write"
      [] at = "flush_enqueue_lock" -> "flush_enqueue_write"
      [] at = "dequeue_lock" -> "dequeue_read"
      [] OTHER -> "size_read"

\* a call: the thread goes to its first statement, the place it returns to on
\* top of its stack
Enter(s, first, back) == [s EXCEPT !.pc = first, !.stack = <<back>> \o @]

\* return: back to the caller; a call made from idle is one more call done
Return(s) ==
    [s EXCEPT !.pc = Head(s.stack), !.stack = Tail(s.stack),
              !.ops = IF Head(s.stack) = "idle" THEN @ + 1 ELSE @]

LockThread(t) == lk.threads[t]

lockIdle == <<mainVars, saving, unitVars, rpVars, queueVars, limVars, paging, th>>

\* a thread calls produce (line 364), flush (379), retry_dlq (395) or reads
\* dlq_size (408)
LockCall(t) ==
    /\ LockThread(t).pc = "idle"
    /\ LockThread(t).ops < MaxLockOps
    /\ \E first \in {"produce_lock", "flush_client", "dequeue_lock", "size_lock"} :
          lk' = [lk EXCEPT !.threads[t] = Enter(@, first, "idle")]
    /\ UNCHANGED lockIdle

\* threading.Lock.acquire: blocks until the lock is free, whoever holds it
LockAcquire(t) ==
    /\ LockThread(t).pc \in ProducerLockPcs \cup DlqLockPcs
    /\ IF LockThread(t).pc \in ProducerLockPcs
       THEN /\ lk.producer_lock = 0
            /\ lk' = [lk EXCEPT !.producer_lock = t,
                                !.threads[t].pc = AfterAcquire(@)]
       ELSE /\ lk.dlq_lock = 0
            /\ lk' = [lk EXCEPT !.dlq_lock = t,
                                !.threads[t].pc = AfterAcquire(@)]
    /\ UNCHANGED lockIdle

\* produce, lines 367-368: the message is put into pending, the lock released
ProducePending(t) ==
    /\ LockThread(t).pc = "produce_pending"
    /\ lk' = [lk EXCEPT !.npending = IF @ < MaxHeld THEN @ + 1 ELSE @,
                        !.producer_lock = Released(@),
                        !.threads[t].pc = "produce_client"]
    /\ UNCHANGED lockIdle

\* produce, lines 370-377: maybe_throttle, then the client's produce is called
ClientProduce(t) ==
    /\ LockThread(t).pc = "produce_client"
    /\ lk' = [lk EXCEPT !.ninflight = IF @ < MaxHeld THEN @ + 1 ELSE @,
                        !.threads[t].pc = "client_produce"]
    /\ UNCHANGED lockIdle

\* inside the client's produce or flush: it runs the delivery callback of a
\* message it holds, on this thread, with or without an error
ClientCallback(t) ==
    /\ LockThread(t).pc \in {"client_produce", "client_flush"}
    /\ lk.ninflight > 0
    /\ \E err \in BOOLEAN :
          lk' = [lk EXCEPT !.ninflight = @ - 1,
                          !.threads[t] = [Enter(@, "callback_lock", @.pc) EXCEPT
                                             !.err = err]]
    /\ UNCHANGED lockIdle

\* the client's produce returns, and with it produce
ClientProduceReturns(t) ==
    /\ LockThread(t).pc = "client_produce"
    /\ lk' = [lk EXCEPT !.threads[t] = Return(@)]
    /\ UNCHANGED lockIdle

\* _delivery_callback, lines 352-362: pending.pop, the lock released; then the
\* DLQ when err is set
CallbackPop(t) ==
    /\ LockThread(t).pc = "callback_pop"
    /\ lk' = [lk EXCEPT !.npending = IF @ > 0 THEN @ - 1 ELSE @,
                        !.producer_lock = Released(@),
                        !.threads[t] = IF @.err THEN [@ EXCEPT !.pc = "enqueue_lock"]
                                       ELSE Return(@)]
    /\ UNCHANGED lockIdle

\* DiskQueue.enqueue, lines 198-201, called from the callback
EnqueueLine(t) ==
    /\ LockThread(t).pc = "enqueue_write"
    /\ lk' = [lk EXCEPT !.nfile = IF @ < MaxHeld THEN @ + 1 ELSE @,
                        !.dlq_lock = Released(@),
                        !.threads[t] = Return(@)]
    /\ UNCHANGED lockIdle

\* flush, line 385: the client's flush is called
ClientFlush(t) ==
    /\ LockThread(t).pc = "flush_client"
    /\ lk' = [lk EXCEPT !.threads[t].pc = "client_flush"]
    /\ UNCHANGED lockIdle

\* flush, lines 385-386: the client's flush returns what it still holds
ClientFlushReturns(t) ==
    /\ LockThread(t).pc = "client_flush"
    /\ lk' = [lk EXCEPT !.threads[t] = IF lk.ninflight > 0
                                       THEN [@ EXCEPT !.pc = "flush_lock"]
                                       ELSE Return(@)]
    /\ UNCHANGED lockIdle

\* flush, lines 388-391: under the producer lock, the next entry of pending
\* goes to the DLQ; after the last, pending.clear() and the lock is released
FlushLoop(t) ==
    /\ LockThread(t).pc = "flush_loop"
    /\ IF LockThread(t).todo < lk.npending
       THEN lk' = [lk EXCEPT !.threads[t].pc = "flush_enqueue_lock"]
       ELSE lk' = [lk EXCEPT !.npending = 0,
                            !.producer_lock = Released(@),
                            !.threads[t] = Return([@ EXCEPT !.todo = 0])]
    /\ UNCHANGED lockIdle

\* DiskQueue.enqueue, lines 198-201, called from flush
FlushEnqueueLine(t) ==
    /\ LockThread(t).pc = "flush_enqueue_write"
    /\ lk' = [lk EXCEPT !.nfile = IF @ < MaxHeld THEN @ + 1 ELSE @,
                        !.dlq_lock = Released(@),
                        !.threads[t] = [@ EXCEPT !.pc = "flush_loop", !.todo = @ + 1]]
    /\ UNCHANGED lockIdle

\* DiskQueue.dequeue_all, lines 209-230, called from retry_dlq
DequeueLines(t) ==
    /\ LockThread(t).pc = "dequeue_read"
    /\ lk' = [lk EXCEPT !.nfile = 0,
                        !.dlq_lock = Released(@),
                        !.threads[t] = [@ EXCEPT !.pc = "retry_loop", !.todo = lk.nfile]]
    /\ UNCHANGED lockIdle

\* retry_dlq, lines 402-406: self.produce for the next message, or return
RetryNextMessage(t) ==
    /\ LockThread(t).pc = "retry_loop"
    /\ lk' = [lk EXCEPT !.threads[t] =
                  IF @.todo > 0
                  THEN Enter([@ EXCEPT !.todo = @ - 1], "produce_lock", "retry_loop")
                  ELSE Return(@)]
    /\ UNCHANGED lockIdle

\* DiskQueue.size, lines 234-241
SizeLines(t) ==
    /\ LockThread(t).pc = "size_read"
    /\ lk' = [lk EXCEPT !.dlq_lock = Released(@), !.threads[t] = Return(@)]
    /\ UNCHANGED lockIdle

LockStep(t) ==
    \/ LockAcquire(t)
    \/ ProducePending(t)
    \/ ClientProduce(t)
    \/ ClientCallback(t)
    \/ ClientProduceReturns(t)
    \/ CallbackPop(t)
    \/ EnqueueLine(t)
    \/ ClientFlush(t)
    \/ ClientFlushReturns(t)
    \/ FlushLoop(t)
    \/ FlushEnqueueLine(t)
    \/ DequeueLines(t)
    \/ RetryNextMessage(t)
    \/ SizeLines(t)

InitLocks ==
    /\ IdleMain /\ IdleState /\ IdleUnit /\ IdleRp /\ IdleQueue /\ IdleLim
    /\ paging = NoPaging /\ th = NoThrottler
    /\ \E held \in [nfile : 0..1, ninflight : 0..1] :
          lk = [producer_lock |-> 0, dlq_lock |-> 0,
                npending |-> held.ninflight, nfile |-> held.nfile,
                ninflight |-> held.ninflight,
                threads |-> [t \in LockThreads |->
                               [pc |-> "idle", stack |-> <<>>, todo |-> 0,
                                err |-> FALSE, ops |-> 0]]]

LockNext == \E t \in LockThreads : LockCall(t) \/ LockStep(t)

\* the interpreter runs every thread that can run
LockSpec == InitLocks /\ [][LockNext]_vars /\ \A t \in LockThreads : WF_vars(LockStep(t))

\* ---------------------------------------------------------------- claims
\* What the latest call of fetch_since received and returned.
Fetched == {last.res.fetched[i] : i \in 1..Len(last.res.fetched)}

Emitted == {last.res.out[i] : i \in 1..Len(last.res.out)}

Mapped(r) == map_record(r, TIMESTAMP_FIELD)

\* the record has an entity id (map_record's fiwareid), a timestamp and a fingerprint
ValidRecord(ev) == Truthy(ev["fiwareid"]) /\ Truthy(ev["ts"]) /\ Truthy(ev["_fp"])

Returned == last.called /\ ~last.res.raised

\* C1: fetch_since never returns an offset below the one it was given, and after
\* an iteration of main neither the in-memory offset nor the offset in the state
\* file is below what it was before the iteration.
WatermarkMonotone ==
    last.called =>
        /\ ~last.res.raised => last.res.new_offset >= last.offset_iso
        /\ offset >= last.offset_iso
        /\ state_json.kind = "json" =>
               state_json.data["offset"] >=
                   load_state(last.state_json_before, offset_txt)[1]

WatermarkMonotoneWitness ==
    /\ Returned
    /\ last.offset_iso > START_OFFSET
    /\ \E r \in Fetched : Mapped(r)["ts"] > last.offset_iso
    /\ \E r \in Fetched : Mapped(r)["ts"] = last.offset_iso
    /\ \E b \in 1..Len(BASES) : last.fail[b] > 0

\* C2: calling fetch_since again on the same upstream answers, starting from
\* the offset and seen map the first call returned, emits nothing and returns
\* that same offset and seen map.
IdempotentRefetch ==
    Returned =>
        \A again \in {fetch_since(last.res.new_offset, last.res.seen_map,
                                  last.snapshot, last.fail)} :
            /\ ~again.raised
            /\ again.out = <<>>
            /\ again.new_offset = last.res.new_offset
            /\ again.seen_map = last.res.seen_map

IdempotentRefetchWitness ==
    /\ Returned
    /\ last.fail = NoFail
    /\ Len(last.snapshot) = 2
    /\ Fetched = {last.snapshot[1], last.snapshot[2]}
    /\ \A r \in Fetched : ValidRecord(Mapped(r)) /\ Mapped(r)["ts"] > last.offset_iso
    /\ Mapped(last.snapshot[1])["ts"] = Mapped(last.snapshot[2])["ts"]
    /\ Mapped(last.snapshot[1])["_fp"] # Mapped(last.snapshot[2])["_fp"]

\* C3: every valid row received whose timestamp is after the input offset is in
\* the returned list; from an empty seen map, two rows of stations 1 and 2 at
\* one timestamp T1 after the offset are both emitted, the new offset is T1 and
\* the seen map is exactly those two stations with their fingerprints.
StrictlyNewerEmitted ==
    Returned =>
        /\ \A r \in Fetched :
               ValidRecord(Mapped(r)) /\ Mapped(r)["ts"] > last.offset_iso
                   => Mapped(r) \in Emitted
        /\ \A a, b \in RawRows :
               /\ last.snapshot = <<a, b>> /\ last.fail = NoFail
               /\ last.seen_for_offset = EmptyDict
               /\ a.fiwareid = 1 /\ b.fiwareid = 2
               /\ Mapped(a)["ts"] = Mapped(b)["ts"] /\ Mapped(a)["ts"] > last.offset_iso
               => /\ last.res.out = <<Mapped(a), Mapped(b)>>
                  /\ last.res.new_offset = Mapped(a)["ts"]
                  /\ last.res.seen_map = (1 :> Mapped(a)["_fp"]) @@ (2 :> Mapped(b)["_fp"])

\* C4: a valid row received whose timestamp equals the input offset is emitted
\* exactly when the input seen map does not hold its fingerprint for its entity;
\* a poll of that one row emits nothing and keeps the offset when the fingerprint
\* is unchanged, and otherwise emits exactly that row, keeps the offset and
\* returns a seen map holding the new fingerprint.
TieWithCommittedWatermark ==
    Returned =>
        /\ \A r \in Fetched :
               ValidRecord(Mapped(r)) /\ Mapped(r)["ts"] = last.offset_iso
                   => (Mapped(r) \in Emitted <=>
                         Get(last.seen_for_offset, Mapped(r)["fiwareid"]) # Mapped(r)["_fp"])
        /\ \A r \in RawRows :
               /\ last.snapshot = <<r>> /\ last.fail = NoFail
               /\ ValidRecord(Mapped(r)) /\ Mapped(r)["ts"] = last.offset_iso
               => IF Get(last.seen_for_offset, Mapped(r)["fiwareid"]) = Mapped(r)["_fp"]
                  THEN last.res.out = <<>> /\ last.res.new_offset = last.offset_iso
                  ELSE /\ last.res.out = <<Mapped(r)>>
                       /\ last.res.new_offset = last.offset_iso
                       /\ Get(last.res.seen_map, Mapped(r)["fiwareid"]) = Mapped(r)["_fp"]

\* C5: when the fetch and the publish of a poll succeed, every valid row version
\* the upstream holds at or after the offset has been published by this poll or
\* an earlier one, unless the seen map says it was already emitted at the offset.
NoMissedUpdates ==
    Returned /\ last.fail = NoFail /\ ~last.publish_raised =>
        \A i \in 1..Len(last.snapshot) :
            LET ev == Mapped(last.snapshot[i])
            IN /\ ValidRecord(ev)
               /\ ev["ts"] >= last.offset_iso
               /\ ~(ev["ts"] = last.offset_iso
                      /\ Get(last.seen_for_offset, ev["fiwareid"]) = ev["_fp"])
               => \E m \in published : m.value = ev

\* C7: when the request for a later page of the first base fails, the valid
\* rows after the offset that the earlier pages delivered are returned, with the
\* offset advanced to at least their timestamps.
NoLossOnPartialFailure ==
    last.called /\ last.fail[1] >= 1 /\ <<1, last.fail[1]>> \in
            {last.res.requests[i] : i \in 1..Len(last.res.requests)} =>
        \A i \in 1..(last.fail[1] * LIMIT) :
            LET ev == Mapped(last.snapshot[i])
            IN ValidRecord(ev) /\ ev["ts"] > last.offset_iso
               => /\ ~last.res.raised
                  /\ ev \in Emitted
                  /\ last.res.new_offset >= ev["ts"]

\* C8: when the first page request fails on every base, fetch_since returns
\* normally with no records, the input offset and the input seen map.
FirstPageFailsEverywhere ==
    last.called /\ (\A b \in 1..Len(BASES) : last.fail[b] = 0) =>
        /\ ~last.res.raised
        /\ last.res.out = <<>>
        /\ last.res.new_offset = last.offset_iso
        /\ last.res.seen_map = last.seen_for_offset

FirstPageFailsEverywhereWitness ==
    /\ last.called
    /\ \A b \in 1..Len(BASES) : last.fail[b] = 0
    /\ last.res.requests = <<<<1, 0>>, <<2, 0>>>>
    /\ last.snapshot # <<>>
    /\ last.seen_for_offset # EmptyDict

\* C9: no returned record lacks a timestamp, and a poll whose rows all lack a
\* timestamp returns normally with no records and the offset and seen map it
\* was given.
NoTimestampNeverEmitted ==
    last.called =>
        /\ \A ev \in Emitted : Truthy(Get(ev, "ts"))
        /\ (Fetched # {} /\ \A r \in Fetched : ~Truthy(Get(r, TIMESTAMP_FIELD)))
           => /\ ~last.res.raised
              /\ last.res.out = <<>>
              /\ last.res.new_offset = last.offset_iso
              /\ last.res.seen_map = last.seen_for_offset

NoTimestampNeverEmittedWitness ==
    /\ Returned
    /\ last.fail = NoFail
    /\ Len(last.snapshot) = 2
    /\ Fetched = {last.snapshot[1], last.snapshot[2]}
    /\ \A r \in Fetched : ~Truthy(Get(r, TIMESTAMP_FIELD)) /\ Truthy(r.fiwareid)

\* C10: an iteration whose fetch_since returned no records calls neither
\* produce_all nor save_state and leaves offset, seen and the state file as
\* they were.
EmptyPollMutatesNothing ==
    Returned /\ last.res.out = <<>> =>
        /\ ~last.produced
        /\ ~last.saved
        /\ offset = last.offset_iso
        /\ seen = last.seen_for_offset
        /\ state_json = last.state_json_before

EmptyPollMutatesNothingWitness ==
    /\ Returned
    /\ last.res.out = <<>>
    /\ last.res.requests = <<<<1, 0>>, <<2, 0>>>>
    /\ last.snapshot = <<>>
    /\ state_json.kind = "absent"

\* C11: whatever fetch_since, produce_all or save_state raised in an iteration,
\* main goes from the try block to the sleep loop and from there back to the
\* while test, and it leaves the while loop only when running is false.
LoopSurvivesFailure ==
    [][/\ pc = "try" => pc' \in {"try", "sleep"}
       /\ pc \in {"sleep", "sleeping"} => pc' \in {"sleep", "sleeping", "poll"}
       /\ pc = "poll" /\ running => pc' \in {"poll", "try"}
       /\ pc' = "done" => pc = "done" \/ (pc = "poll" /\ ~running)]_vars

LoopSurvivesFailureWitness ==
    /\ last.called
    /\ last.res.raised
    /\ \E i \in 1..Len(last.snapshot) : last.snapshot[i].fecha_carg = BadTs
    /\ pc = "sleep"
    /\ running

\* C12: once running is false main enters no try block and begins no further
\* second of sleep; a try block entered before the signal is run to its end,
\* on to the sleep loop; and main reaches the end of the while loop.
CooperativeCancellation ==
    /\ [][/\ ~running /\ pc # "try" => pc' # "try"
          /\ ~running /\ pc # "sleeping" => pc' # "sleeping"
          /\ pc = "try" => pc' \in {"try", "sleep"}]_vars
    /\ (~running ~> pc = "done")

CooperativeCancellationWitness ==
    /\ pc = "done"
    /\ stopped_at.pc = "sleeping"
    /\ stopped_at.slept = 0

\* C13: once save_state(offset, seen) has completed, load_state() returns
\* (offset, seen), and so does the load_state() of a process started afterwards.
StateRoundTrip ==
    saving.phase = "done" =>
        /\ load_state(state_json, offset_txt) = <<saving.offset, saving.seen, FALSE>>
        /\ saving.loaded => offset = saving.offset /\ seen = saving.seen

StateRoundTripWitness ==
    /\ saving.phase = "done"
    /\ saving.loaded
    /\ Cardinality(DOMAIN saving.seen) = 2
    /\ saving.before.kind = "json"
    /\ offset_txt # None
    /\ saving.offset # Strip(offset_txt)

\* C14: while save_state is under way, and after a crash in the middle of it,
\* the state file holds the complete state of before the call or the complete
\* new one, and a load_state made then returns one of the two.
AtomicStateSave ==
    saving.phase \in {"open", "crashed"} =>
        /\ state_json \in {saving.before, save_state(saving.offset, saving.seen)}
        /\ saving.loaded =>
               <<offset, seen, FALSE>> \in {load_state(saving.before, offset_txt),
                                            <<saving.offset, saving.seen, FALSE>>}

OnePublishPerRecord ==
    pub_call.called /\ pub_call.kafka_ok =>
        \A want \in {SelectSeq(pub_call.events, LAMBDA ev : Truthy(ev["ts"]))} :
            /\ ~pub_call.raised
            /\ Len(pub_call.sent) = Len(want)
            /\ \A i \in 1..Len(want) :
                   /\ pub_call.sent[i].key = <<want[i]["fiwareid"], want[i]["ts"]>>
                   /\ pub_call.sent[i].value = want[i]

\* C18: a delivery report removes the message's entry from the pending map; a
\* failed one appends the message, key and value, to the DLQ and counts one
\* failure in the statistics of a producer that throttles; a successful one
\* counts one success and leaves the DLQ as it was.
DeliveryOutcome ==
    [][rp_last'.op = "callback" =>
          /\ pending' = PendingPop(pending, MsgId(rp_last'.key, rp_last'.value))
          /\ \A i \in DOMAIN pending' : pending'[i][2] # <<rp_last'.key, rp_last'.value>>
          /\ dlq' = IF rp_last'.err
                    THEN Append(dlq, [key |-> Decode(rp_last'.key),
                                      value |-> Decode(rp_last'.value)])
                    ELSE dlq
          /\ throttler =>
                 /\ stats'.failure_count =
                        (IF rp_last'.elapsed THEN 0 ELSE stats.failure_count)
                            + (IF rp_last'.err THEN 1 ELSE 0)
                 /\ stats'.success_count =
                        (IF rp_last'.elapsed THEN 0 ELSE stats.success_count)
                            + (IF rp_last'.err THEN 0 ELSE 1)]_vars

DeliveryOutcomeWitness ==
    /\ rp_last.op = "callback"
    /\ rp_last.err
    /\ ~rp_last.elapsed
    /\ throttler
    /\ stats = [success_count |-> 1, failure_count |-> 1]
    /\ dlq = <<[key |-> Decode(rp_last.key), value |-> Decode(rp_last.value)]>>
    /\ Len(pending) = 1

FirstSourceWins ==
    last.called /\ ~last.res.raised /\ last.fail[1] # 0 /\ last.snapshot # <<>> =>
        \A i \in 1..Len(last.res.requests) : last.res.requests[i][1] = 1

\* C30: a row whose timestamp equals the running maximum is emitted only if the
\* seen map of the poll does not hold its fingerprint for its entity; two
\* identical valid rows at one timestamp after the offset give one emission.
TieWithRunningMax ==
    Returned =>
        /\ \A i \in 1..Len(last.res.out) : \A j \in 1..Len(last.res.out) :
               i # j => last.res.out[i] # last.res.out[j]
        /\ \A a \in RawRows :
               /\ last.snapshot = <<a, a>> /\ last.fail = NoFail
               /\ ValidRecord(Mapped(a)) /\ Mapped(a)["ts"] > last.offset_iso
               => last.res.out = <<Mapped(a)>>

\* C28: every message passed to ResilientProducer.produce is, at every moment
\* between calls, in the pending table, in the dead-letter queue or among the
\* messages confirmed delivered.
NoSilentDrop ==
    \A m \in rp_produced :
        \/ \E i \in DOMAIN pending : pending[i][2] = m
        \/ \E i \in DOMAIN dlq : dequeue_all(dlq)[i] = m
        \/ m \in rp_delivered

\* what dequeue_all gives back for a message given to enqueue: bytes that are
\* not valid UTF-8 come back as the encoding of U+FFFD
AsStored(m) == <<Encode(Decode(m[1])), Encode(Decode(m[2]))>>

\* C21 as stated: dequeue_all returns exactly the pairs given to enqueue since
\* the previous drain, in enqueue order, leaves the queue empty (size() 0), and
\* a dequeue_all that follows another returns the empty list.
DlqDrainExact ==
    q_last.op = "dequeue_all" =>
        /\ q_last.ret = q_last.since
        /\ q_last.size = 0 /\ size(dlq) = 0
        /\ q_last.after_drain => q_last.ret = <<>>

\* C21 amended: dequeue_all returns one pair per enqueue call since the
\* previous drain, in enqueue order, equal to the pair enqueued when its key and
\* value are valid UTF-8 and with U+FFFD in place of the invalid bytes
\* otherwise; the queue is empty afterwards (size() 0) and a dequeue_all that
\* follows another returns the empty list.
DlqDrain ==
    q_last.op = "dequeue_all" =>
        /\ Len(q_last.ret) = Len(q_last.since)
        /\ \A i \in 1..Len(q_last.since) :
               /\ q_last.ret[i] = AsStored(q_last.since[i])
               /\ \A j \in 1..2 : q_last.since[i][j] \notin InvalidBytes =>
                                       q_last.ret[i][j] = q_last.since[i][j]
        /\ q_last.size = 0 /\ size(dlq) = 0
        /\ q_last.after_drain => q_last.ret = <<>>

\* a drain that followed two enqueue calls of different valid messages
DlqDrainWitness ==
    /\ q_last.op = "dequeue_all"
    /\ Len(q_last.since) = 2 /\ q_last.since[1] # q_last.since[2]
    /\ \A i \in 1..2 : \A j \in 1..2 : q_last.since[i][j] \notin InvalidBytes
    /\ q_last.ret = q_last.since

\* C27: whatever the interleaving of the threads' enqueue and dequeue_all
\* calls, the messages the completed enqueue calls wrote are, in order, the
\* messages the drains returned followed by those still in the queue file: each
\* is in exactly one of the two, once.
DlqExactlyOnce ==
    [i \in 1..Len(q_done) |-> AsStored(q_done[i])] = q_out \o dequeue_all(dlq)

\* a thread waits in enqueue while a drain, having read the file, has yet to
\* unlink it
DlqExactlyOnceWitness ==
    \E t \in QThreads, u \in QThreads :
        /\ q_pc[t] = "deq_read" /\ q_pc[u] = "enq_wait"
        /\ q_out # <<>>

\* the attempts of the latest call of http_request_with_retry, 0-based
HttpAttempts == 0..http_call.max_retries

HttpOutcome(i) == http_call.outcomes[i + 1]

RetryableResponse(o) == o.kind = "response" /\ o.status \in {429, 500, 502, 503, 504}

RetryableException(o) ==
    o.kind = "exception" /\ o.exc \in {"Timeout", "ConnectionError", "ChunkedEncodingError"}

\* C22: http_request_with_retry issues at most max_retries + 1 requests; when
\* every attempt raises a retryable exception it issues exactly max_retries + 1
\* and propagates the last one; when every attempt returns a retryable status
\* it issues exactly max_retries + 1 and raises an HTTP error.
BoundedRetry ==
    http_call.called =>
        /\ http_call.requests <= http_call.max_retries + 1
        /\ http_call.max_retries >= 0
           /\ (\A i \in HttpAttempts : RetryableException(HttpOutcome(i)))
           => /\ http_call.requests = http_call.max_retries + 1
              /\ http_call.result = "raise"
              /\ http_call.exc = HttpOutcome(http_call.max_retries).exc
        /\ http_call.max_retries >= 0
           /\ (\A i \in HttpAttempts : RetryableResponse(HttpOutcome(i)))
           => /\ http_call.requests = http_call.max_retries + 1
              /\ http_call.result = "raise"
              /\ http_call.exc = "HTTPError"

\* two retries allowed, three retryable statuses answered
BoundedRetryWitness ==
    /\ http_call.called /\ http_call.max_retries = 2
    /\ \A i \in HttpAttempts : RetryableResponse(HttpOutcome(i))
    /\ http_call.requests = 3 /\ http_call.exc = "HTTPError"

HttpSleep(i) == http_call.sleeps[i + 1]

\* attempt i of the latest call was made, answered a retryable status, and
\* attempts remained
RetriedResponse(i) ==
    /\ i < http_call.max_retries /\ i < http_call.requests
    /\ RetryableResponse(HttpOutcome(i))

\* C24 as stated: after a retryable response with attempts remaining exactly
\* one sleep is made: of the header's seconds when Retry-After parses as an
\* integer, of the computed backoff of the attempt index when the header is
\* absent or does not parse.
RetryAfterAnyInteger ==
    http_call.called =>
        /\ Len(http_call.sleeps) = Max(0, http_call.requests - 1)
        /\ \A i \in HttpAttempts : RetriedResponse(i) =>
               IF HttpOutcome(i).retry_after \in IntTexts
               THEN HttpSleep(i) = [kind |-> "retry_after",
                                    arg |-> ParseInt(HttpOutcome(i).retry_after)]
               ELSE HttpSleep(i) = [kind |-> "backoff", arg |-> i]

\* C24 amended: the header's seconds are slept when Retry-After parses as an
\* integer that is not negative; the computed backoff of the attempt index is
\* slept when the header is absent, empty, does not parse or is negative.
RetryAfterPrecedence ==
    http_call.called =>
        /\ Len(http_call.sleeps) = Max(0, http_call.requests - 1)
        /\ \A i \in HttpAttempts : RetriedResponse(i) =>
               IF /\ HttpOutcome(i).retry_after \in IntTexts
                  /\ ParseInt(HttpOutcome(i).retry_after) >= 0
               THEN HttpSleep(i) = [kind |-> "retry_after",
                                    arg |-> ParseInt(HttpOutcome(i).retry_after)]
               ELSE HttpSleep(i) = [kind |-> "backoff", arg |-> i]

\* a 429 with Retry-After: 2, then a 429 with an HTTP date, then a 200
RetryAfterPrecedenceWitness ==
    /\ http_call.called /\ http_call.max_retries = 2
    /\ HttpOutcome(0) = Response(429, 202)
    /\ HttpOutcome(1) = Response(429, 150)
    /\ http_call.sleeps = <<[kind |-> "retry_after", arg |-> 2], [kind |-> "backoff", arg |-> 1]>>
    /\ http_call.result = "return"

\* C25: with jitter_factor 0, delay_ms(attempt) is
\* min(base_delay_ms * 2^attempt, max_delay_ms), which is never above max_delay_ms.
BackoffWithoutJitter ==
    backoff_call.called /\ backoff_call.jitter_pct = 0 =>
        /\ backoff_call.delay =
               Min(backoff_call.base_delay_ms * Pow2(backoff_call.attempt),
                   backoff_call.max_delay_ms)
        /\ backoff_call.delay <= backoff_call.max_delay_ms

\* without jitter, an attempt whose exponential delay is above the cap
BackoffWithoutJitterWitness ==
    /\ backoff_call.called /\ backoff_call.jitter_pct = 0
    /\ backoff_call.base_delay_ms * Pow2(backoff_call.attempt) > backoff_call.max_delay_ms
    /\ backoff_call.delay = backoff_call.max_delay_ms /\ backoff_call.delay > 0

\* the threads inside the "with limiter:" block, and those blocked before it
LimInside == {t \in LimThreads : lim_pc[t] = "inside"}

LimWaiting == {t \in LimThreads : lim_pc[t] = "waiting"}

Entity(ev) == ev["fiwareid"]

\* C31: every entry of the seen map fetch_since returns is either that of a
\* record emitted in this call whose timestamp is the returned offset (with
\* that record's fingerprint) or, the returned offset being the input offset,
\* an entry of the input seen map; when the returned offset is above the input
\* offset every entry is of the first kind.
SeenMapScope ==
    Returned =>
        \A sid \in DOMAIN last.res.seen_map :
            \/ \E ev \in Emitted :
                   /\ Entity(ev) = sid /\ ev["ts"] = last.res.new_offset
                   /\ last.res.seen_map[sid] = ev["_fp"]
            \/ /\ last.res.new_offset = last.offset_iso
               /\ sid \in DOMAIN last.seen_for_offset
               /\ last.res.seen_map[sid] = last.seen_for_offset[sid]

\* a call that started from a seen map with an entry and received a valid row
\* after the offset
SeenMapScopeWitness ==
    /\ Returned
    /\ last.seen_for_offset # EmptyDict /\ last.res.seen_map # EmptyDict
    /\ \E r \in Fetched : ValidRecord(Mapped(r)) /\ Mapped(r)["ts"] > last.offset_iso

\* C37: when fetch_since returns an empty list, the offset and the seen map it
\* returns are the ones it was given, and main keeps them.
EmptyResultNoChange ==
    Returned /\ last.res.out = <<>> =>
        /\ last.res.new_offset = last.offset_iso
        /\ last.res.seen_map = last.seen_for_offset
        /\ offset = last.offset_iso /\ seen = last.seen_for_offset

\* an empty list returned after rows were received, one of them at the offset
EmptyResultNoChangeWitness ==
    /\ Returned /\ last.res.out = <<>>
    /\ last.seen_for_offset # EmptyDict
    /\ Len(last.res.fetched) = 2
    /\ \E r \in Fetched : Mapped(r)["ts"] = last.offset_iso

\* C39: after a call of fetch_since, returned or raised, the caller's
\* seen_for_offset mapping is what it was before the call, and unless the
\* iteration committed main's seen is that mapping.
InputsNotModified ==
    last.called =>
        /\ last.res.caller_seen = last.seen_for_offset
        /\ ~last.saved => seen = last.seen_for_offset

\* a call that raised in the middle of a page, on a seen map with an entry
InputsNotModifiedWitness ==
    /\ last.called /\ last.res.raised
    /\ last.seen_for_offset # EmptyDict
    /\ Len(last.res.fetched) = 2
    /\ ValidRecord(Mapped(last.res.fetched[1]))

\* the entries of a queue file, in file order, as the pairs they stand for
ValidEntries(file) ==
    LET entries == SelectSeq(file, LAMBDA line : line.key > 0)
    IN [i \in 1..Len(entries) |-> <<entries[i].key - 100, entries[i].value - 100>>]

\* C36: a dequeue_all over a file that holds entries and lines that are not
\* JSON returns the entries in file order, and the file is gone afterwards.
MalformedLinesSkipped ==
    q_last.op = "dequeue_all" /\ q_last.file # <<>> =>
        /\ q_last.ret = ValidEntries(q_last.file)
        /\ dlq = <<>> /\ q_last.size = 0

\* a drain of a file with a torn line between two entries and an entry
\* enqueued after them
MalformedLinesSkippedWitness ==
    /\ q_last.op = "dequeue_all"
    /\ Len(q_last.file) = 5
    /\ q_last.file[2] = TornLine /\ q_last.file[3] = BlankLine
    /\ Len(q_last.ret) = 3

\* the failures and the events counted when the latest throttler call began
ThFailures == th.last.before.failure_count

ThEvents == th.last.before.success_count + th.last.before.failure_count

\* the ratio is strictly above the threshold (0 when nothing is counted)
ThOver == ThEvents > 0 /\ ThFailures * 100 > th.threshold_pct * ThEvents

\* min_delay_ms <= delay <= max_delay_ms, and delay = max_delay_ms at ratio 1.0
ThDelayInRange ==
    /\ th.min_delay_ms * th.last.delay[2] <= th.last.delay[1]
    /\ th.last.delay[1] <= th.max_delay_ms * th.last.delay[2]
    /\ ThFailures = ThEvents => th.last.delay[1] = th.max_delay_ms * th.last.delay[2]

\* C34 as stated: maybe_throttle sleeps exactly when the failure ratio is
\* strictly above the threshold; the delay is within [min_delay_ms,
\* max_delay_ms], is max_delay_ms at ratio 1.0, and grows linearly with the
\* excess of the ratio over the threshold:
\* min + (max - min) * (ratio - threshold) / (1 - threshold).
ThrottleByExcess ==
    th.last.op = "maybe_throttle" =>
        /\ th.last.slept <=> ThOver
        /\ th.last.slept =>
              /\ ThDelayInRange
              /\ th.last.delay[1] * ThEvents * (100 - th.threshold_pct)
                   = th.last.delay[2]
                     * (th.min_delay_ms * ThEvents * (100 - th.threshold_pct)
                        + (th.max_delay_ms - th.min_delay_ms)
                          * (ThFailures * 100 - th.threshold_pct * ThEvents))

\* C34 amended: maybe_throttle sleeps exactly when the failure ratio is
\* strictly above the threshold; the delay is within [min_delay_ms,
\* max_delay_ms], is max_delay_ms at ratio 1.0, and grows linearly with the
\* ratio itself: min + (max - min) * ratio.
ThrottleDecision ==
    th.last.op = "maybe_throttle" =>
        /\ th.last.slept <=> ThOver
        /\ th.last.slept =>
              /\ ThDelayInRange
              /\ th.last.delay[1] * ThEvents
                   = th.last.delay[2]
                     * (th.min_delay_ms * ThEvents
                        + (th.max_delay_ms - th.min_delay_ms) * ThFailures)

\* a sleep at a ratio of 2/3 over a threshold of 1/2
ThrottleDecisionWitness ==
    /\ th.last.op = "maybe_throttle" /\ th.last.slept
    /\ ThFailures = 2 /\ ThEvents = 3
    /\ th.threshold_pct = 50 /\ th.min_delay_ms < th.max_delay_ms

\* C35: a record_success or record_failure made more than window_seconds
\* after window_start leaves its own counter 1, the other 0 and the window
\* starting now; one made within the window adds 1 to its own counter and
\* changes nothing else; reading failure_ratio or total changes nothing.
WindowReset ==
    LET b == th.last.before
        late == th.last.at - b.window_start > th.window_seconds
    IN /\ th.last.op = "record_success" =>
             th.stats = IF late
                        THEN [success_count |-> 1, failure_count |-> 0,
                              window_start |-> th.last.at]
                        ELSE [b EXCEPT !.success_count = @ + 1]
       /\ th.last.op = "record_failure" =>
             th.stats = IF late
                        THEN [success_count |-> 0, failure_count |-> 1,
                              window_start |-> th.last.at]
                        ELSE [b EXCEPT !.failure_count = @ + 1]
       /\ th.last.op \in {"failure_ratio", "total", "maybe_throttle"} => th.stats = b

\* a record_failure after the window ran out on counters that were both set
WindowResetWitness ==
    /\ th.last.op = "record_failure"
    /\ th.last.before.success_count > 0 /\ th.last.before.failure_count > 0
    /\ th.last.at - th.last.before.window_start > th.window_seconds

\* the answer to a request ended the paging of its base: the request failed, or
\* the page was empty or had fewer than LIMIT rows
PageStops(e) == e.failed \/ e.n < LIMIT

\* the requests of a call are, base after base, for offsets 0, LIMIT,
\* 2*LIMIT, ...; a request follows another to the same base only after a full
\* page, and a base once left is not asked again
PagingOrder ==
    /\ paging.served # <<>> => paging.served[1].b = 1
    /\ \A i \in 1..Len(paging.served) :
          LET e == paging.served[i]
          IN /\ e.offset = e.page * LIMIT
             /\ i = 1 \/ paging.served[i - 1].b # e.b => e.page = 0
             /\ i > 1 =>
                   LET prev == paging.served[i - 1]
                   IN /\ prev.ctl # "raise"
                      /\ IF PageStops(prev) THEN e.b = prev.b + 1
                         ELSE e.b = prev.b /\ e.page = prev.page + 1
    /\ paging.pc = "done" =>
          PageStops(paging.served[Len(paging.served)])

\* every base gets to a request that fails or to the end of the rows
UpstreamStops ==
    \A b \in 1..Len(BASES) : ~paging.up.endless \/ paging.fail[b] >= 0

WaitsFor(t) ==
    IF lk.threads[t].pc \in {"produce_lock", "callback_lock", "flush_lock"}
    THEN lk.producer_lock
    ELSE IF lk.threads[t].pc \in {"enqueue_lock", "flush_enqueue_lock", "dequeue_lock",
                                  "size_lock"}
    THEN lk.dlq_lock
    ELSE 0

LockBlocked(t) == WaitsFor(t) # 0

\* no thread waits for itself, nor for a thread that waits for it
NoWaitCycle ==
    \A t \in LockThreads :
        /\ WaitsFor(t) # t
        /\ LockBlocked(t) => WaitsFor(WaitsFor(t)) # t

\* a thread that holds the DLQ lock is not at an acquire of the producer lock,
\* and no lock is held by a thread that is calling the client
LockDiscipline ==
    \A t \in LockThreads :
        /\ lk.dlq_lock = t =>
              lk.threads[t].pc \notin {"produce_lock", "callback_lock", "flush_lock"}
        /\ lk.threads[t].pc \in {"produce_client", "client_produce", "flush_client",
                                  "client_flush"} =>
              lk.producer_lock # t /\ lk.dlq_lock # t

\* C40: in every interleaving of produce, flush, retry_dlq, dlq_size and the
\* delivery callbacks the client runs inside its produce and flush, the locks
\* are nested only as producer lock then DLQ lock, none is held at a call of
\* the client, no threads wait for one another in a circle, and a thread that
\* waits at a lock gets past it.
NoLockDeadlock ==
    /\ [](NoWaitCycle /\ LockDiscipline)
    /\ \A t \in LockThreads :
          (lk.threads[t].pc \in {"produce_lock", "callback_lock", "flush_lock",
                                 "enqueue_lock", "flush_enqueue_lock", "dequeue_lock",
                                 "size_lock"})
          ~> (lk.threads[t].pc \in {"produce_pending", "callback_pop", "flush_loop",
                                    "enqueue_write", "flush_enqueue_write",
                                    "dequeue_read", "size_read"})

\* a flush holds the producer lock and waits for the DLQ lock, which a
\* callback that runs inside another thread's client call holds
NoLockDeadlockWitness ==
    \E t \in LockThreads, u \in LockThreads :
        /\ lk.threads[t].pc = "flush_enqueue_lock" /\ lk.producer_lock = t
        /\ lk.threads[u].pc = "enqueue_write" /\ lk.dlq_lock = u
        /\ Head(lk.threads[u].stack) \in {"client_produce", "client_flush"}

====
